---- MODULE Spec2Model ----
(***************************************************************************)
(* Verification model of the taiwan-stock-analysis indicator engine,       *)
(* signal/score layer and its callers.                                      *)
(*                                                                         *)
(* Number representation.  DECIMAL(10,2) prices are integers counted in    *)
(* hundredths (close_price 1.05 is 105) and DECIMAL(10,4) values integers *)
(* counted in ten-thousandths.  A JavaScript double d is the fixed-point   *)
(* integer nearest to d * FP, so toFixed(2) yields hundredths and          *)
(* toFixed(4) ten-thousandths.  SQL NULL / JavaScript null is the empty    *)
(* tuple Null, a present value v is the one-element tuple <<v>>.  The      *)
(* price columns of the modelled rows are never NULL; volume may be.       *)
(***************************************************************************)
EXTENDS Integers, Sequences, FiniteSets, TLC

VARIABLES
    daily_prices,          \* table daily_prices: stock_id -> rows in trade_date order
    technical_indicators,  \* table technical_indicators: a set of rows
    monthly_revenue,       \* table monthly_revenue: stock_id -> rows, latest month first
    financial_statements,  \* table financial_statements: stock_id -> rows, latest quarter first
    dividends,             \* table dividends: stock_id -> rows, latest year first
    connections,           \* pool connections currently held
    saves,                 \* crawler saves performed so far
    batch,                 \* position of calculateAllIndicators
    lastOp,                \* the last operation called and what it returned
    requestTimestamps,     \* finmindApi.js: admission times still remembered by the limiter
    clock,                 \* Date.now(), in milliseconds
    fetches,               \* position of each fetchFinMindData call in flight
    margin_trading,        \* table margin_trading: rows in insertion order
    institutional_trading, \* table institutional_trading: rows in insertion order
    financial_ratios,      \* table financial_ratios: rows in insertion order
    fallback               \* position of a crawler's stock-by-stock loop

\* the state of the crawlers
limiterVars == <<requestTimestamps, clock, fetches>>

crawledTables == <<margin_trading, institutional_trading, financial_ratios>>

crawlerVars == <<limiterVars, crawledTables, fallback>>

\* the state of the database and of the analysis layer
engineVars == <<daily_prices, technical_indicators, monthly_revenue, financial_statements,
                dividends, connections, saves, batch, lastOp>>

vars == <<daily_prices, technical_indicators, monthly_revenue, financial_statements,
          dividends, connections, saves, batch, lastOp, requestTimestamps, clock, fetches,
          margin_trading, institutional_trading, financial_ratios, fallback>>

----------------------------------------------------------------------------
(* Values *)

Null == <<>>

Some(v) == <<v>>

IsNull(x) == x = Null

Val(x) == x[1]

\* fixed-point scale of a JavaScript double
FP == 100 * 100

Abs(x) == IF x < 0 THEN -x ELSE x

Max2(a, b) == IF a >= b THEN a ELSE b

Min2(a, b) == IF a <= b THEN a ELSE b

\* a / b rounded to the nearest integer, ties away from zero (b # 0)
Round(a, b) ==
    LET n == IF b < 0 THEN -a ELSE a
        d == Abs(b)
    IN  IF n >= 0 THEN (2 * n + d) \div (2 * d) ELSE -((2 * (-n) + d) \div (2 * d))

\* the double (a / b) * m for b > 0, digit pair by digit pair so that no intermediate
\* exceeds 32 bits
Ratio(a, b, m) ==
    LET n == a * m
        r1 == (n % b) * 100
    IN  (n \div b) * FP + (r1 \div b) * 100 + Round((r1 % b) * 100, b)

\* Number.prototype.toFixed(2), as hundredths
ToFixed2(x) == Round(x, FP \div 100)

\* Number.prototype.toFixed(4), as ten-thousandths
ToFixed4(x) == x * (10000 \div FP)

\* parseFloat of a DECIMAL(10,2) column
parseFloat(dec) == dec * (FP \div 100)

\* parseInt(r.volume) || 0
parseVolume(v) == IF IsNull(v) THEN 0 ELSE Val(v)

\* Array.prototype.slice(-period)
Last(s, period) == SubSeq(s, Len(s) - period + 1, Len(s))

\* for (i = from; i <= to; i++) acc = body(acc, i), evaluated by halving the range
RECURSIVE ForLoop(_, _, _, _)
ForLoop(body(_, _), acc, from, to) ==
    IF from > to THEN acc
    ELSE IF from = to THEN body(acc, from)
    ELSE LET mid == (from + to) \div 2
             left == ForLoop(body, acc, from, mid)
         IN  IF left = left THEN ForLoop(body, left, mid + 1, to) ELSE left

\* reduce((a, b) => a + b, 0)
Sum(s) == ForLoop(LAMBDA a, i : a + s[i], 0, 1, Len(s))

\* Math.max(...s)
MaxOf(s) == ForLoop(LAMBDA a, i : Max2(a, s[i]), s[1], 2, Len(s))

\* Math.min(...s)
MinOf(s) == ForLoop(LAMBDA a, i : Min2(a, s[i]), s[1], 2, Len(s))

RECURSIVE SqrtSearch(_, _, _)
SqrtSearch(v, lo, hi) ==
    IF lo >= hi THEN lo
    ELSE LET mid == (lo + hi + 1) \div 2
         IN  IF mid * mid <= v THEN SqrtSearch(v, mid, hi) ELSE SqrtSearch(v, lo, mid - 1)

\* Math.sqrt on a non-negative integer, rounded to the nearest integer
Sqrt(v) ==
    LET r == SqrtSearch(v, 0, 40000)
    IN  IF v - r * r > r THEN r + 1 ELSE r

----------------------------------------------------------------------------
(* src/analysis/calculateIndicators.js: the indicator functions.  Series   *)
(* are 1-indexed here and 0-indexed in the source.                          *)

calculateMAShort(prices, period) ==
    IF Len(prices) = 0 THEN Null
    ELSE Some(ToFixed2(Round(Sum(Last(prices, Min2(period, Len(prices)))), period)))

calculateMA(prices, period) ==
    IF Len(prices) < period THEN Null
    ELSE Some(ToFixed2(Round(Sum(Last(prices, period)), period)))

\* the exponential series seeded with the first value of the window
calculateEMASeriesFirstValue(prices, period) ==
    IF Len(prices) < period THEN <<>>
    ELSE LET k == [num |-> 2, den |-> period + 1]
             seed == prices[1]
             step(st, i) ==
                 LET ema == Round(prices[i] * k.num + st.ema * (k.den - k.num), k.den)
                 IN  [ema |-> ema, result |-> Append(st.result, Some(ema))]
         IN  ForLoop(step,
                     [ema |-> seed,
                      result |-> [j \in 1..(period - 1) |-> Null] \o <<Some(seed)>>],
                     period + 1, Len(prices)).result

calculateEMASeries(prices, period) ==
    IF Len(prices) < period THEN <<>>
    ELSE LET k == [num |-> 2, den |-> period + 1]
             seed == Round(Sum(SubSeq(prices, 1, period)), period)
             step(st, i) ==
                 LET ema == Round(prices[i] * k.num + st.ema * (k.den - k.num), k.den)
                 IN  [ema |-> ema, result |-> Append(st.result, Some(ema))]
         IN  ForLoop(step,
                     [ema |-> seed,
                      result |-> [j \in 1..(period - 1) |-> Null] \o <<Some(seed)>>],
                     period + 1, Len(prices)).result

\* the RSI without the test of avgLoss: 0 / 0 is NaN, avgGain / 0 is Infinity
calculateRSIUnguarded(prices, period) ==
    IF Len(prices) < period + 1 THEN Null
    ELSE LET first(st, i) ==
                 LET change == prices[i] - prices[i - 1]
                 IN  IF change > 0 THEN [avgGain |-> st.avgGain + change, avgLoss |-> st.avgLoss]
                     ELSE [avgGain |-> st.avgGain, avgLoss |-> st.avgLoss + Abs(change)]
             sums == ForLoop(first, [avgGain |-> 0, avgLoss |-> 0], 2, period + 1)
             wilder(st, i) ==
                 LET change == prices[i] - prices[i - 1]
                     gain == IF change > 0 THEN change ELSE 0
                     loss == IF change < 0 THEN Abs(change) ELSE 0
                 IN  [avgGain |-> Round(st.avgGain * (period - 1) + gain, period),
                      avgLoss |-> Round(st.avgLoss * (period - 1) + loss, period)]
             avg == ForLoop(wilder,
                            [avgGain |-> Round(sums.avgGain, period),
                             avgLoss |-> Round(sums.avgLoss, period)],
                            period + 2, Len(prices))
         IN  IF avg.avgGain + avg.avgLoss = 0 THEN Null
             ELSE Some(ToFixed2(Ratio(avg.avgGain, avg.avgGain + avg.avgLoss, 100)))

\* 100 - 100 / (1 + avgGain / avgLoss) is computed as 100 * avgGain / (avgGain + avgLoss)
calculateRSI(prices, period) ==
    IF Len(prices) < period + 1 THEN Null
    ELSE LET first(st, i) ==
                 LET change == prices[i] - prices[i - 1]
                 IN  IF change > 0 THEN [avgGain |-> st.avgGain + change, avgLoss |-> st.avgLoss]
                     ELSE [avgGain |-> st.avgGain, avgLoss |-> st.avgLoss + Abs(change)]
             sums == ForLoop(first, [avgGain |-> 0, avgLoss |-> 0], 2, period + 1)
             wilder(st, i) ==
                 LET change == prices[i] - prices[i - 1]
                     gain == IF change > 0 THEN change ELSE 0
                     loss == IF change < 0 THEN Abs(change) ELSE 0
                 IN  [avgGain |-> Round(st.avgGain * (period - 1) + gain, period),
                      avgLoss |-> Round(st.avgLoss * (period - 1) + loss, period)]
             avg == ForLoop(wilder,
                            [avgGain |-> Round(sums.avgGain, period),
                             avgLoss |-> Round(sums.avgLoss, period)],
                            period + 2, Len(prices))
         IN  IF avg.avgLoss = 0 THEN Some(100 * 100)
             ELSE Some(ToFixed2(Ratio(avg.avgGain, avg.avgGain + avg.avgLoss, 100)))

NoMACD == [macd |-> Null, signal |-> Null, histogram |-> Null]

\* the [macd, signal, histogram] strings returned
MACDValues(macdVal, signalVal) ==
    [macd |-> Some(ToFixed4(macdVal)),
     signal |-> Some(ToFixed4(signalVal)),
     histogram |-> Some(ToFixed4(macdVal - signalVal))]

\* ema12[i] - ema26[i] wherever both are defined
MACDSeries(ema12, ema26) ==
    LET defined == SelectSeq([i \in 1..Len(ema12) |-> i],
                             LAMBDA i : ~IsNull(ema12[i]) /\ ~IsNull(ema26[i]))
    IN  [j \in 1..Len(defined) |-> Val(ema12[defined[j]]) - Val(ema26[defined[j]])]

\* signal = 9-period EMA of the MACD series
MACDSignal(macdSeries) ==
    IF Len(macdSeries) < 9 THEN NoMACD
    ELSE MACDValues(macdSeries[Len(macdSeries)],
                    Val(calculateEMASeries(macdSeries, 9)[Len(macdSeries)]))

\* the MACD line reported as soon as EMA26 exists, the signal once it has 9 points
calculateMACDLineFirst(prices) ==
    IF Len(prices) < 26 THEN NoMACD
    ELSE IF Len(prices) < 34
    THEN [macd |-> Some(ToFixed4(Val(calculateEMASeries(prices, 12)[Len(prices)])
                                 - Val(calculateEMASeries(prices, 26)[Len(prices)]))),
          signal |-> Null, histogram |-> Null]
    ELSE MACDSignal(MACDSeries(calculateEMASeries(prices, 12),
                               calculateEMASeries(prices, 26)))

calculateMACD(prices) ==
    IF Len(prices) < 35 THEN NoMACD
    ELSE MACDSignal(MACDSeries(calculateEMASeries(prices, 12),
                               calculateEMASeries(prices, 26)))

\* a zero-range window taken as the bottom of the range
RSVOfBottom(closes, i, highest, lowest) ==
    IF highest # lowest THEN Ratio(closes[i] - lowest, highest - lowest, 100) ELSE 0

\* let rsv = 50; if (highest !== lowest) rsv = ((closes[i] - lowest) / (highest - lowest)) * 100
RSVOf(closes, i, highest, lowest) ==
    IF highest # lowest THEN Ratio(closes[i] - lowest, highest - lowest, 100) ELSE 50 * FP

\* the rsv of bar i (i >= period)
RSV(highs, lows, closes, i, period) ==
    RSVOf(closes, i, MaxOf(SubSeq(highs, i - period + 1, i)),
          MinOf(SubSeq(lows, i - period + 1, i)))

calculateKD(highs, lows, closes, period) ==
    IF Len(closes) < period THEN [k |-> Null, d |-> Null]
    ELSE LET step(st, i) ==
                 LET rsv == RSV(highs, lows, closes, i, period)
                     k == Round(2 * st.k + rsv, 3)
                     d == Round(2 * st.d + k, 3)
                 IN  [k |-> k, d |-> d]
             kd == ForLoop(step, [k |-> 50 * FP, d |-> 50 * FP], period, Len(closes))
         IN  [k |-> Some(ToFixed2(kd.k)), d |-> Some(ToFixed2(kd.d))]

calculateBollinger(prices, period, stdDev) ==
    IF Len(prices) < period THEN [upper |-> Null, middle |-> Null, lower |-> Null]
    ELSE LET recentPrices == Last(prices, period)
             middle == Round(Sum(recentPrices), period)
             squares == ForLoop(LAMBDA sum, i :
                                    sum + (recentPrices[i] - middle) * (recentPrices[i] - middle),
                                0, 1, period)
             variance == Round(squares, period)
             sd == Sqrt(variance)
         IN  [upper |-> Some(ToFixed2(middle + stdDev * sd)),
              middle |-> Some(ToFixed2(middle)),
              lower |-> Some(ToFixed2(middle - stdDev * sd))]

calculateVWAP(highs, lows, closes, volumes, period) ==
    IF Len(closes) < period THEN Null
    ELSE LET step(st, i) ==
                 LET typicalPrice == Round(highs[i] + lows[i] + closes[i], 3)
                 IN  [sumPV |-> st.sumPV + typicalPrice * volumes[i],
                      sumV |-> st.sumV + volumes[i]]
             sums == ForLoop(step, [sumPV |-> 0, sumV |-> 0],
                             Len(closes) - period + 1, Len(closes))
         IN  IF sums.sumV = 0 THEN Null ELSE Some(ToFixed2(Round(sums.sumPV, sums.sumV)))

\* the true range of bar i (i >= 2)
TrueRange(highs, lows, closes, i) ==
    Max2(highs[i] - lows[i],
         Max2(Abs(highs[i] - closes[i - 1]), Abs(lows[i] - closes[i - 1])))

\* avg = (avg * (period - 1) + series[i]) / period for i = from .. Len(series)
WilderLoop(series, period, from, avg) ==
    ForLoop(LAMBDA a, i : Round(a * (period - 1) + series[i], period), avg, from, Len(series))

calculateATR(highs, lows, closes, period) ==
    IF Len(closes) < period + 1 THEN Null
    ELSE LET trSeries == [j \in 1..(Len(closes) - 1) |-> TrueRange(highs, lows, closes, j + 1)]
             atr == Round(Sum(SubSeq(trSeries, 1, period)), period)
         IN  Some(ToFixed4(WilderLoop(trSeries, period, period + 1, atr)))

NoDMI == [adx |-> Null, plusDI |-> Null, minusDI |-> Null]

\* pdi, mdi and dx of one bar from the smoothed sums
DIOf(smoothDM, smoothTR) == IF smoothTR > 0 THEN Ratio(smoothDM, smoothTR, 100) ELSE 0

DXOf(pdi, mdi) == IF pdi + mdi > 0 THEN Ratio(Abs(pdi - mdi), pdi + mdi, 100) ELSE 0

DXPointOf(pdi, mdi) == [dx |-> DXOf(pdi, mdi), pdi |-> pdi, mdi |-> mdi]

DXPoint(smoothTR, smoothPlusDM, smoothMinusDM) ==
    DXPointOf(DIOf(smoothPlusDM, smoothTR), DIOf(smoothMinusDM, smoothTR))

\* +DM of bar i (i >= 2)
PlusDM(highs, lows, i) ==
    LET upMove == highs[i] - highs[i - 1]
        downMove == lows[i - 1] - lows[i]
    IN  IF upMove > downMove /\ upMove > 0 THEN upMove ELSE 0

\* -DM of bar i (i >= 2)
MinusDM(highs, lows, i) ==
    LET upMove == highs[i] - highs[i - 1]
        downMove == lows[i - 1] - lows[i]
    IN  IF downMove > upMove /\ downMove > 0 THEN downMove ELSE 0

\* the smoothing seeded with the means of the first period values
DMISmoothingFromMean(trSeries, plusDM, minusDM, period) ==
    LET step(st, i) ==
            LET smoothTR == st.smoothTR - Round(st.smoothTR, period) + trSeries[i]
                smoothPlusDM == st.smoothPlusDM - Round(st.smoothPlusDM, period) + plusDM[i]
                smoothMinusDM == st.smoothMinusDM - Round(st.smoothMinusDM, period) + minusDM[i]
            IN  [smoothTR |-> smoothTR, smoothPlusDM |-> smoothPlusDM,
                 smoothMinusDM |-> smoothMinusDM,
                 dxSeries |-> Append(st.dxSeries,
                                     DXPoint(smoothTR, smoothPlusDM, smoothMinusDM))]
    IN  ForLoop(step,
                [smoothTR |-> Round(Sum(SubSeq(trSeries, 1, period)), period),
                 smoothPlusDM |-> Round(Sum(SubSeq(plusDM, 1, period)), period),
                 smoothMinusDM |-> Round(Sum(SubSeq(minusDM, 1, period)), period),
                 dxSeries |-> <<>>],
                period + 1, Len(trSeries))

\* the loop that smooths TR, +DM, -DM and collects {dx, pdi, mdi}: its variables after
\* the last bar
DMISmoothing(trSeries, plusDM, minusDM, period) ==
    LET step(st, i) ==
            LET smoothTR == st.smoothTR - Round(st.smoothTR, period) + trSeries[i]
                smoothPlusDM == st.smoothPlusDM - Round(st.smoothPlusDM, period) + plusDM[i]
                smoothMinusDM == st.smoothMinusDM - Round(st.smoothMinusDM, period) + minusDM[i]
            IN  [smoothTR |-> smoothTR, smoothPlusDM |-> smoothPlusDM,
                 smoothMinusDM |-> smoothMinusDM,
                 dxSeries |-> Append(st.dxSeries,
                                     DXPoint(smoothTR, smoothPlusDM, smoothMinusDM))]
    IN  ForLoop(step,
                [smoothTR |-> Sum(SubSeq(trSeries, 1, period)),
                 smoothPlusDM |-> Sum(SubSeq(plusDM, 1, period)),
                 smoothMinusDM |-> Sum(SubSeq(minusDM, 1, period)),
                 dxSeries |-> <<>>],
                period + 1, Len(trSeries))

DXSeries(trSeries, plusDM, minusDM, period) ==
    DMISmoothing(trSeries, plusDM, minusDM, period).dxSeries

\* ADX = Wilder smoothing of DX; +DI and -DI of the last bar
ADXOf(dxSeries, period) ==
    IF Len(dxSeries) < period THEN NoDMI
    ELSE [adx |-> Some(ToFixed2(WilderLoop([j \in 1..Len(dxSeries) |-> dxSeries[j].dx],
                                           period, period + 1,
                                           Round(Sum([j \in 1..period |-> dxSeries[j].dx]),
                                                 period)))),
          plusDI |-> Some(ToFixed2(dxSeries[Len(dxSeries)].pdi)),
          minusDI |-> Some(ToFixed2(dxSeries[Len(dxSeries)].mdi))]

calculateDMI(highs, lows, closes, period) ==
    IF Len(closes) < period + 1 THEN NoDMI
    ELSE IF Len(closes) - 1 < period THEN NoDMI
    ELSE ADXOf(DXSeries([j \in 1..(Len(closes) - 1) |-> TrueRange(highs, lows, closes, j + 1)],
                        [j \in 1..(Len(closes) - 1) |-> PlusDM(highs, lows, j + 1)],
                        [j \in 1..(Len(closes) - 1) |-> MinusDM(highs, lows, j + 1)],
                        period),
               period)

calculateWilliamsR(highs, lows, closes, period) ==
    IF Len(closes) < period THEN Null
    ELSE LET currentClose == closes[Len(closes)]
             highest == MaxOf(Last(highs, period))
             lowest == MinOf(Last(lows, period))
         IN  IF highest = lowest THEN Some(-50 * 100)
             ELSE Some(ToFixed2(-Ratio(highest - currentClose, highest - lowest, 100)))

\* the running sum started at the volume of the first bar
calculateOBVFromFirstBar(closes, volumes) ==
    IF Len(closes) < 2 THEN Null
    ELSE Some(ForLoop(LAMBDA obv, i :
                          IF closes[i] > closes[i - 1] THEN obv + volumes[i]
                          ELSE IF closes[i] < closes[i - 1] THEN obv - volumes[i]
                          ELSE obv,
                      volumes[1], 2, Len(closes)))

calculateOBV(closes, volumes) ==
    IF Len(closes) < 2 THEN Null
    ELSE Some(ForLoop(LAMBDA obv, i :
                          IF closes[i] > closes[i - 1] THEN obv + volumes[i]
                          ELSE IF closes[i] < closes[i - 1] THEN obv - volumes[i]
                          ELSE obv,
                      0, 2, Len(closes)))

\* the indicators object assembled by calculateIndicatorsForStock
IndicatorsRecord(stockId, latestDate, closes, highs, lows, volumes, macd, kd, bollinger, dmi) ==
    [stock_id |-> stockId,
     trade_date |-> latestDate,
     ma5 |-> calculateMA(closes, 5),
     ma10 |-> calculateMA(closes, 10),
     ma20 |-> calculateMA(closes, 20),
     ma60 |-> calculateMA(closes, 60),
     rsi |-> calculateRSI(closes, 14),
     macd |-> macd.macd,
     macd_signal |-> macd.signal,
     macd_histogram |-> macd.histogram,
     kd_k |-> kd.k,
     kd_d |-> kd.d,
     bollinger_upper |-> bollinger.upper,
     bollinger_middle |-> bollinger.middle,
     bollinger_lower |-> bollinger.lower,
     vwap |-> calculateVWAP(highs, lows, closes, volumes, 20),
     atr |-> calculateATR(highs, lows, closes, 14),
     adx |-> dmi.adx,
     plus_di |-> dmi.plusDI,
     minus_di |-> dmi.minusDI,
     williams_r |-> calculateWilliamsR(highs, lows, closes, 14),
     obv |-> calculateOBV(closes, volumes)]

\* closes, highs, lows, volumes -> macd, kd, bollinger, dmi -> indicators
IndicatorsFrom(stockId, latestDate, closes, highs, lows, volumes) ==
    IndicatorsRecord(stockId, latestDate, closes, highs, lows, volumes,
                     calculateMACD(closes),
                     calculateKD(highs, lows, closes, 9),
                     calculateBollinger(closes, 20, 2),
                     calculateDMI(highs, lows, closes, 14))

\* the computation of calculateIndicatorsForStock on the rows it selected
Indicators(stockId, rows) ==
    IndicatorsFrom(stockId, rows[Len(rows)].trade_date,
                   [i \in 1..Len(rows) |-> parseFloat(rows[i].close_price)],
                   [i \in 1..Len(rows) |-> parseFloat(rows[i].high_price)],
                   [i \in 1..Len(rows) |-> parseFloat(rows[i].low_price)],
                   [i \in 1..Len(rows) |-> parseVolume(rows[i].volume)])

----------------------------------------------------------------------------
(* Tables and the engine: calculateIndicatorsForStock                       *)

Stocks == {"2330", "2317"}

\* crawler saves explored per behaviour
MaxSaves == 1

\* SELECT ... FROM daily_prices WHERE stock_id = ? ORDER BY trade_date ASC LIMIT limit
SelectAscLimit(rows, limit) == SubSeq(rows, 1, Min2(Len(rows), limit))

InsufficientHistoryNone(rows) == Len(rows) = 0

\* the (rows.length < 20) test
InsufficientHistory(rows) == Len(rows) < 20

\* a DECIMAL(5,2) column holds |v| <= 999.99; sql_mode is strict (the server default),
\* so an out-of-range value rejects the statement
FitsColumns(row) ==
    \A c \in {"rsi", "kd_k", "kd_d", "adx", "plus_di", "minus_di", "williams_r"} :
        IsNull(row[c]) \/ Abs(Val(row[c])) <= 99999

\* UNIQUE KEY unique_stock_date (stock_id, trade_date)
SameKey(r, row) == r.stock_id = row.stock_id /\ r.trade_date = row.trade_date

InsertOnDuplicateKeyUpdateBase(table, row) ==
    IF \E r \in table : SameKey(r, row)
    THEN {IF SameKey(r, row)
          THEN [r EXCEPT !.ma5 = row.ma5, !.ma10 = row.ma10, !.ma20 = row.ma20,
                         !.ma60 = row.ma60, !.rsi = row.rsi, !.macd = row.macd,
                         !.macd_signal = row.macd_signal,
                         !.macd_histogram = row.macd_histogram,
                         !.kd_k = row.kd_k, !.kd_d = row.kd_d,
                         !.bollinger_upper = row.bollinger_upper,
                         !.bollinger_middle = row.bollinger_middle,
                         !.bollinger_lower = row.bollinger_lower]
          ELSE r : r \in table}
    ELSE table \cup {row}

\* INSERT INTO technical_indicators ... ON DUPLICATE KEY UPDATE <every indicator column>
InsertOnDuplicateKeyUpdate(table, row) ==
    IF \E r \in table : SameKey(r, row)
    THEN {IF SameKey(r, row)
          THEN [r EXCEPT !.ma5 = row.ma5, !.ma10 = row.ma10, !.ma20 = row.ma20,
                         !.ma60 = row.ma60, !.rsi = row.rsi, !.macd = row.macd,
                         !.macd_signal = row.macd_signal,
                         !.macd_histogram = row.macd_histogram,
                         !.kd_k = row.kd_k, !.kd_d = row.kd_d,
                         !.bollinger_upper = row.bollinger_upper,
                         !.bollinger_middle = row.bollinger_middle,
                         !.bollinger_lower = row.bollinger_lower,
                         !.vwap = row.vwap, !.atr = row.atr, !.adx = row.adx,
                         !.plus_di = row.plus_di, !.minus_di = row.minus_di,
                         !.williams_r = row.williams_r, !.obv = row.obv]
          ELSE r : r \in table}
    ELSE table \cup {row}

\* a return that leaves technical_indicators as it is
NoWrite(outcome, n, indicators) ==
    [outcome |-> outcome, rows |-> n, indicators |-> indicators,
     table |-> technical_indicators]

\* the INSERT at the end of the try block
WriteIndicators(fault, n, indicators) ==
    IF fault = "insert" \/ ~FitsColumns(indicators) THEN NoWrite("failed", n, indicators)
    ELSE [outcome |-> IF \E r \in technical_indicators : SameKey(r, indicators)
                      THEN "updated" ELSE "inserted",
          rows |-> n, indicators |-> indicators,
          table |-> InsertOnDuplicateKeyUpdate(technical_indicators, indicators)]

\* the try block after the SELECT returned rows
ProcessRows(stockId, fault, rows) ==
    IF InsufficientHistory(rows) THEN NoWrite("insufficient", Len(rows), Null)
    ELSE WriteIndicators(fault, Len(rows), Indicators(stockId, rows))

\* calculateIndicatorsForStock(stockId); fault names the awaited call that rejects.
\* pool.getConnection() is awaited before the try block, so its rejection leaves the
\* function; a rejected query is caught and logged
calculateIndicatorsForStock(stockId, fault) ==
    IF fault = "getConnection" THEN NoWrite("threw", 0, Null)
    ELSE IF fault = "select" THEN NoWrite("failed", 0, Null)
    ELSE ProcessRows(stockId, fault, SelectAscLimit(daily_prices[stockId], 250))

Faults == {"none", "getConnection", "select", "insert"}

\* the effect of one call on the stored state
Returned(stockId, r) ==
    /\ technical_indicators' = r.table
    /\ lastOp' = [op |-> "calculateIndicatorsForStock", stock_id |-> stockId,
                  outcome |-> r.outcome, rows |-> r.rows, indicators |-> r.indicators]

\* a caller invokes calculateIndicatorsForStock(stockId); the connection it acquires is
\* released in its finally block
CalculateIndicatorsForStock(stockId, fault) ==
    /\ batch.pc = "idle"
    /\ Returned(stockId, calculateIndicatorsForStock(stockId, fault))
    /\ UNCHANGED crawlerVars
    /\ UNCHANGED <<daily_prices, monthly_revenue, financial_statements, dividends,
                   connections, saves, batch>>

\* INSERT INTO daily_prices ... ON DUPLICATE KEY UPDATE, one record of fetchBatchDailyPrices
UpsertDailyPrice(rows, record) ==
    IF \E i \in 1..Len(rows) : rows[i].trade_date = record.trade_date
    THEN [i \in 1..Len(rows) |->
             IF rows[i].trade_date = record.trade_date THEN record ELSE rows[i]]
    ELSE SelectSeq(rows, LAMBDA r : r.trade_date < record.trade_date)
         \o <<record>>
         \o SelectSeq(rows, LAMBDA r : r.trade_date > record.trade_date)

\* records a crawl can deliver: a well-formed bar with heavy volume, a bar whose prices
\* are negative, and a bar whose volume field was '--' (parseNumber gives null)
CrawledBars ==
    {[high_price |-> 112, low_price |-> 108, close_price |-> 110, volume |-> Some(3000)],
     [high_price |-> -95, low_price |-> -105, close_price |-> -100, volume |-> Some(1000)],
     [high_price |-> 103, low_price |-> 99, close_price |-> 101, volume |-> Null]}

LastDate(rows) == rows[Len(rows)].trade_date

SaveDailyPrice(stockId, tradeDate, bar) ==
    /\ batch.pc = "idle"
    /\ saves < MaxSaves
    /\ saves' = saves + 1
    /\ daily_prices' = [daily_prices EXCEPT ![stockId] =
           UpsertDailyPrice(@, [trade_date |-> tradeDate, high_price |-> bar.high_price,
                                low_price |-> bar.low_price,
                                close_price |-> bar.close_price, volume |-> bar.volume])]
    /\ lastOp' = [op |-> "saveDailyPrice", stock_id |-> stockId]
    /\ UNCHANGED crawlerVars
    /\ UNCHANGED <<technical_indicators, monthly_revenue, financial_statements, dividends,
                   connections, batch>>

\* a well-formed bar of the stored history: prices near 1.00, high >= close >= low > 0
Bar(d) ==
    LET close == 100 + (d % 5) + (d % 3)
    IN  [trade_date |-> d, high_price |-> close + 2, low_price |-> close - 2 - (d % 2),
         close_price |-> close, volume |-> Some(1000 + 100 * (d % 4))]

\* n consecutive trading days
History(n) == [d \in 1..n |-> Bar(d)]

\* a thinly traded stock: no volume until its latest day
ThinHistory(n) == [d \in 1..n |-> [Bar(d) EXCEPT !.volume = Some(IF d = n THEN 1000 ELSE 0)]]

\* a stock that never traded: every volume is 0
SilentHistory(n) == [d \in 1..n |-> [Bar(d) EXCEPT !.volume = Some(0)]]

\* stored history lengths: one short of the minimum, and the minimum
InitLengths == {19, 20}

NoFacts == [s \in Stocks |-> <<>>]

Idle == [pc |-> "idle"]

\* finmindApi.js as loaded: no request made yet, no call in flight
Datasets ==
    {"TaiwanStockFinancialStatements", "TaiwanStockBalanceSheet",
     "TaiwanStockCashFlowsStatement"}

\* no stock-by-stock loop was entered
NoLoop == [pc |-> "idle", crawler |-> "none", stockIds |-> 0, i |-> 0,
           consecutiveFails |-> 0, attempts |-> 0]

CrawlersIdle ==
    /\ requestTimestamps = <<>>
    /\ clock = 0
    /\ fetches = [d \in Datasets |-> [pc |-> "idle", calls |-> 0]]
    /\ margin_trading = <<>>
    /\ institutional_trading = <<>>
    /\ financial_ratios = <<>>
    /\ fallback = NoLoop

Init ==
    /\ \E n \in InitLengths :
           daily_prices = [s \in Stocks |-> IF s = "2330" THEN History(n) ELSE ThinHistory(20)]
    /\ technical_indicators = {}
    /\ monthly_revenue = NoFacts
    /\ financial_statements = NoFacts
    /\ dividends = NoFacts
    /\ connections = 0
    /\ saves = 0
    /\ batch = Idle
    /\ lastOp = [op |-> "none"]
    /\ CrawlersIdle

Next ==
    \/ \E s \in Stocks, fault \in Faults : CalculateIndicatorsForStock(s, fault)
    \/ \E s \in Stocks, bar \in CrawledBars :
           \E tradeDate \in {LastDate(daily_prices[s]), LastDate(daily_prices[s]) + 1} :
               SaveDailyPrice(s, tradeDate, bar)

Spec == Init /\ [][Next]_vars

----------------------------------------------------------------------------
(* The engine on a stock whose stored history fills the query's LIMIT of    *)
(* 250 rows                                                                  *)

InitLimit ==
    /\ daily_prices = [s \in Stocks |-> IF s = "2330" THEN History(250) ELSE ThinHistory(20)]
    /\ technical_indicators = {}
    /\ monthly_revenue = NoFacts
    /\ financial_statements = NoFacts
    /\ dividends = NoFacts
    /\ connections = 0
    /\ saves = 0
    /\ batch = Idle
    /\ lastOp = [op |-> "none"]
    /\ CrawlersIdle

SpecLimit == InitLimit /\ [][Next]_vars

----------------------------------------------------------------------------
(* The indicator computation over histories of every length from the       *)
(* minimum up to MaxHistory rows                                            *)

MaxHistory == 61

InitIndicators ==
    /\ \E n \in 20..MaxHistory :
           daily_prices = [s \in Stocks |-> IF s = "2330" THEN History(n)
                                            ELSE SilentHistory(n)]
    /\ technical_indicators = {}
    /\ monthly_revenue = NoFacts
    /\ financial_statements = NoFacts
    /\ dividends = NoFacts
    /\ connections = 0
    /\ saves = 0
    /\ batch = Idle
    /\ lastOp = [op |-> "none"]
    /\ CrawlersIdle

NextIndicators == \E s \in Stocks : CalculateIndicatorsForStock(s, "none")

SpecIndicators == InitIndicators /\ [][NextIndicators]_vars

----------------------------------------------------------------------------
(* calculateAllIndicators: the batch over every stock of daily_prices.  Each *)
(* await of the function is one step.                                        *)

\* the orders in which SELECT DISTINCT stock_id FROM daily_prices can list the stocks
DistinctStockIds ==
    LET S == {s \in Stocks : Len(daily_prices[s]) > 0}
    IN  {f \in [1..Cardinality(S) -> S] : \A i, j \in DOMAIN f : i # j => f[i] # f[j]}

\* const connection = await pool.getConnection(); a rejection leaves the function
\* before its try block
BatchGetConnection(fault) ==
    /\ batch.pc = "idle"
    /\ IF fault = "getConnection"
       THEN /\ batch' = [pc |-> "rejected", i |-> 0, stocks |-> <<>>]
            /\ UNCHANGED connections
       ELSE /\ batch' = [pc |-> "select", i |-> 0, stocks |-> <<>>]
            /\ connections' = connections + 1
    /\ lastOp' = [op |-> "calculateAllIndicators"]
    /\ UNCHANGED crawlerVars
    /\ UNCHANGED <<daily_prices, technical_indicators, monthly_revenue,
                   financial_statements, dividends, saves>>

\* SELECT DISTINCT stock_id; a rejection is caught, rethrown, and the connection released
BatchSelect(fault) ==
    /\ batch.pc = "select"
    /\ IF fault = "select"
       THEN /\ batch' = [batch EXCEPT !.pc = "rejected"]
            /\ connections' = connections - 1
       ELSE \E stocks \in DistinctStockIds :
                /\ batch' = [batch EXCEPT !.pc = IF Len(stocks) = 0 THEN "resolved" ELSE "loop",
                                          !.stocks = stocks]
                /\ connections' = IF Len(stocks) = 0 THEN connections - 1 ELSE connections
    /\ lastOp' = [op |-> "calculateAllIndicators"]
    /\ UNCHANGED crawlerVars
    /\ UNCHANGED <<daily_prices, technical_indicators, monthly_revenue,
                   financial_statements, dividends, saves>>

\* where the batch stands after calculateIndicatorsForStock(stocks[i]) settled: its
\* rejection reaches the catch block, which rethrows
BatchAfter(outcome) ==
    IF outcome = "threw" THEN [batch EXCEPT !.pc = "rejected"]
    ELSE [batch EXCEPT !.i = batch.i + 1,
                       !.pc = IF batch.i + 1 = Len(batch.stocks) THEN "resolved" ELSE "loop"]

\* the finally block releases the batch's connection when the function is left
BatchSettled(next) ==
    /\ batch' = next
    /\ connections' = IF next.pc = "loop" THEN connections ELSE connections - 1

\* the awaited call settles with r
BatchAwait(stockId, r) ==
    /\ Returned(stockId, r)
    /\ BatchSettled(BatchAfter(r.outcome))

\* one iteration: await calculateIndicatorsForStock(stocks[i].stock_id)
BatchIteration(fault) ==
    /\ batch.pc = "loop"
    /\ BatchAwait(batch.stocks[batch.i + 1],
                  calculateIndicatorsForStock(batch.stocks[batch.i + 1], fault))
    /\ UNCHANGED crawlerVars
    /\ UNCHANGED <<daily_prices, monthly_revenue, financial_statements, dividends, saves>>

\* stored history lengths of the batch runs: none, one short of the minimum, the minimum
BatchLengths == {0, 19, 20}

InitBatch ==
    /\ \E n, m \in BatchLengths :
           daily_prices = [s \in Stocks |-> IF s = "2330" THEN History(n) ELSE ThinHistory(m)]
    /\ technical_indicators = {}
    /\ monthly_revenue = NoFacts
    /\ financial_statements = NoFacts
    /\ dividends = NoFacts
    /\ connections = 0
    /\ saves = 0
    /\ batch = Idle
    /\ lastOp = [op |-> "none"]
    /\ CrawlersIdle

NextBatch ==
    \/ \E fault \in {"none", "getConnection"} : BatchGetConnection(fault)
    \/ \E fault \in {"none", "select"} : BatchSelect(fault)
    \/ \E fault \in Faults : BatchIteration(fault)

SpecBatch == InitBatch /\ [][NextBatch]_vars

----------------------------------------------------------------------------
(* src/analysis/strategies.js: screenByStrategy, and the route                *)
(* GET /api/analysis/screen/strategy/:strategy that serves it.  Every stock_id *)
(* of daily_prices and technical_indicators is a row of stocks (foreign keys), *)
(* so the JOIN with stocks drops nothing.                                      *)

Presets ==
    {"golden_cross", "rsi_oversold", "macd_golden_cross", "volume_breakout",
     "bollinger_squeeze"}

\* the stocks table: one row per stock that has price rows
StocksTable == DOMAIN daily_prices

\* SQL comparisons: a comparison with NULL is not true
Gt(a, b) == ~IsNull(a) /\ ~IsNull(b) /\ Val(a) > Val(b)

Le(a, b) == ~IsNull(a) /\ ~IsNull(b) /\ Val(a) <= Val(b)

\* the technical_indicators rows of a stock, optionally those before a date
IndicatorRows(stockId) == {r \in technical_indicators : r.stock_id = stockId}

IndicatorRowsBefore(stockId, date) == {r \in IndicatorRows(stockId) : r.trade_date < date}

\* the row with MAX(trade_date) of a non-empty set of rows
MaxDateRow(rows) == CHOOSE r \in rows : \A q \in rows : q.trade_date <= r.trade_date

\* t1 JOIN t2 JOIN daily_prices dp: the latest indicator row, the one before it and the
\* price row of the latest indicator date
CrossJoin(stockId) ==
    {[t1 |-> t1, t2 |-> t2, dp |-> dp] :
        t1 \in {r \in IndicatorRows(stockId) :
                   r = MaxDateRow(IndicatorRows(stockId))},
        t2 \in {r \in IndicatorRows(stockId) :
                   /\ IndicatorRowsBefore(stockId, MaxDateRow(IndicatorRows(stockId)).trade_date) # {}
                   /\ r = MaxDateRow(IndicatorRowsBefore(stockId,
                                         MaxDateRow(IndicatorRows(stockId)).trade_date))},
        dp \in {daily_prices[stockId][i] : i \in 1..Len(daily_prices[stockId])}}

\* ti JOIN daily_prices dp at the latest indicator date
LatestJoin(stockId) ==
    {[ti |-> ti, dp |-> dp] :
        ti \in {r \in IndicatorRows(stockId) : r = MaxDateRow(IndicatorRows(stockId))},
        dp \in {daily_prices[stockId][i] : i \in 1..Len(daily_prices[stockId])}}

GoldenCrossRows ==
    {[stock_id |-> j.t1.stock_id, close_price |-> Some(j.dp.close_price),
      ma5 |-> j.t1.ma5, ma20 |-> j.t1.ma20, trade_date |-> j.t1.trade_date,
      key |-> Some(j.dp.close_price)] :
        j \in {x \in UNION {CrossJoin(s) : s \in StocksTable} :
                  /\ x.dp.trade_date = x.t1.trade_date
                  /\ Gt(x.t1.ma5, x.t1.ma20)
                  /\ Le(x.t2.ma5, x.t2.ma20)}}

RsiOversoldRows(threshold) ==
    {[stock_id |-> j.ti.stock_id, close_price |-> Some(j.dp.close_price),
      rsi |-> j.ti.rsi, trade_date |-> j.ti.trade_date, key |-> j.ti.rsi] :
        j \in {x \in UNION {LatestJoin(s) : s \in StocksTable} :
                  /\ x.dp.trade_date = x.ti.trade_date
                  /\ ~IsNull(x.ti.rsi)
                  /\ Val(x.ti.rsi) < threshold}}

MacdGoldenCrossRows ==
    {[stock_id |-> j.t1.stock_id, close_price |-> Some(j.dp.close_price),
      macd |-> j.t1.macd, macd_signal |-> j.t1.macd_signal,
      macd_histogram |-> j.t1.macd_histogram, trade_date |-> j.t1.trade_date,
      key |-> j.t1.macd_histogram] :
        j \in {x \in UNION {CrossJoin(s) : s \in StocksTable} :
                  /\ x.dp.trade_date = x.t1.trade_date
                  /\ Gt(x.t1.macd_histogram, Some(0))
                  /\ Le(x.t2.macd_histogram, Some(0))}}

\* the non-NULL volumes of the rows before the latest one
PriorVolumes(rows) ==
    SelectSeq([i \in 1..(Len(rows) - 1) |-> rows[i].volume], LAMBDA v : ~IsNull(v))

\* (SELECT AVG(volume) ... WHERE trade_date < dp1.trade_date ORDER BY trade_date DESC
\* LIMIT 20): the aggregate yields one row, which LIMIT 20 keeps, so the average runs
\* over every earlier row; the result is the pair <<sum, count>>, NULL without rows
AvgPriorVolume(rows) ==
    IF Len(PriorVolumes(rows)) = 0 THEN Null
    ELSE Some(<<Sum([i \in 1..Len(PriorVolumes(rows)) |-> Val(PriorVolumes(rows)[i])]),
                Len(PriorVolumes(rows))>>)

\* dp1.volume > AVG(volume) * 2
ExceedsTwiceAverage(volume, avg) ==
    /\ ~IsNull(volume)
    /\ ~IsNull(avg)
    /\ Val(volume) * Val(avg)[2] > 2 * Val(avg)[1]

VolumeBreakoutRows ==
    {[stock_id |-> s, close_price |-> Some(daily_prices[s][Len(daily_prices[s])].close_price),
      volume |-> daily_prices[s][Len(daily_prices[s])].volume,
      trade_date |-> LastDate(daily_prices[s]),
      avg_volume |-> AvgPriorVolume(daily_prices[s]),
      key |-> daily_prices[s][Len(daily_prices[s])].volume] :
        s \in {x \in StocksTable :
                  /\ Len(daily_prices[x]) > 0
                  /\ ExceedsTwiceAverage(daily_prices[x][Len(daily_prices[x])].volume,
                                         AvgPriorVolume(daily_prices[x]))}}

\* (bollinger_upper - bollinger_lower) / bollinger_middle * 100; NULL when a term is
\* NULL or the divisor is 0
Bandwidth(ti) ==
    IF IsNull(ti.bollinger_lower) \/ IsNull(ti.bollinger_middle) THEN Null
    ELSE IF Val(ti.bollinger_middle) = 0 THEN Null
    ELSE Some(Round((Val(ti.bollinger_upper) - Val(ti.bollinger_lower)) * 100 * FP,
                    Val(ti.bollinger_middle)))

BollingerSqueezeRows ==
    {[stock_id |-> j.ti.stock_id, close_price |-> Some(j.dp.close_price),
      bollinger_upper |-> j.ti.bollinger_upper, bollinger_lower |-> j.ti.bollinger_lower,
      bandwidth |-> Bandwidth(j.ti), key |-> Bandwidth(j.ti)] :
        j \in {x \in UNION {LatestJoin(s) : s \in StocksTable} :
                  /\ x.dp.trade_date = x.ti.trade_date
                  /\ ~IsNull(x.ti.bollinger_upper)}}

\* a sorts before b: ascending order puts NULL first, descending order puts it last
SortsBefore(a, b, descending) ==
    IF descending
    THEN ~IsNull(a) /\ (IsNull(b) \/ Val(a) > Val(b))
    ELSE ~IsNull(b) /\ (IsNull(a) \/ Val(a) < Val(b))

\* the rows that no other row sorts before
FirstRows(rows, descending) ==
    {r \in rows : \A q \in rows : ~SortsBefore(q.key, r.key, descending)}

\* ORDER BY key [DESC]: every order of the rows the database may return, rows of equal
\* key coming in any order
RECURSIVE OrderBy(_, _)
OrderBy(rows, descending) ==
    IF rows = {} THEN {<<>>}
    ELSE UNION {{<<r>> \o rest : rest \in OrderBy(rows \ {r}, descending)} :
                   r \in FirstRows(rows, descending)}

\* a LIMIT that keeps the last 50 rows of the order instead of the first
OrderByLimitTail(rows, descending) ==
    {SubSeq(f, Len(f) - Min2(Len(f), 50) + 1, Len(f)) : f \in OrderBy(rows, descending)}

\* ORDER BY key [DESC] LIMIT 50
OrderByLimit(rows, descending) ==
    {SubSeq(f, 1, Min2(Len(f), 50)) : f \in OrderBy(rows, descending)}

\* options.rsi_threshold || 30, options.rsi_threshold being what the route parsed from
\* the query string (a missing or zero threshold becomes 30)
RsiThreshold(rsi_threshold) ==
    IF IsNull(rsi_threshold) \/ rsi_threshold = Some(0) THEN 30 * 100 ELSE Val(rsi_threshold)

\* the rows the query of a preset can return
QueryRows(strategy, rsi_threshold) ==
    IF strategy = "golden_cross" THEN OrderByLimit(GoldenCrossRows, TRUE)
    ELSE IF strategy = "rsi_oversold"
         THEN OrderByLimit(RsiOversoldRows(RsiThreshold(rsi_threshold)), FALSE)
    ELSE IF strategy = "macd_golden_cross" THEN OrderByLimit(MacdGoldenCrossRows, TRUE)
    ELSE IF strategy = "volume_breakout" THEN OrderByLimit(VolumeBreakoutRows, TRUE)
    ELSE OrderByLimit(BollingerSqueezeRows, FALSE)

\* screenByStrategy(strategy, options): the set of ways the call can settle.  queries
\* counts the connection.query calls made; the connection is released in finally
screenByStrategy(strategy, rsi_threshold, fault) ==
    IF fault = "getConnection" THEN {[threw |-> TRUE, queries |-> 0]}
    ELSE IF strategy \notin Presets
         THEN {[threw |-> FALSE, queries |-> 0, value |-> [error |-> "unsupported strategy"]]}
    ELSE IF fault = "select" THEN {[threw |-> TRUE, queries |-> 1]}
    ELSE {[threw |-> FALSE, queries |-> 1,
           value |-> [strategy |-> strategy, count |-> Len(rows), data |-> rows]] :
             rows \in QueryRows(strategy, rsi_threshold)}

\* the route: res.json({ success: true, ...result }), or status 500 from its catch
ScreenResponse(r) ==
    IF r.threw THEN [status |-> 500, body |-> [success |-> FALSE, error |-> "message"]]
    ELSE [status |-> 200, body |-> [success |-> TRUE] @@ r.value]

\* strategy names and thresholds a client sends
RequestedStrategies == Presets \cup {"momentum"}

RequestedThresholds == {Null, Some(0), Some(70 * 100)}

\* GET /api/analysis/screen/strategy/:strategy?rsi_threshold=
GetScreenStrategy(strategy, rsi_threshold, fault) ==
    /\ batch.pc = "idle"
    /\ \E r \in screenByStrategy(strategy, rsi_threshold, fault) :
           lastOp' = [op |-> "screenByStrategy", strategy |-> strategy,
                      queries |-> r.queries, response |-> ScreenResponse(r)]
    /\ UNCHANGED crawlerVars
    /\ UNCHANGED <<daily_prices, technical_indicators, monthly_revenue,
                   financial_statements, dividends, connections, saves, batch>>

ScreenLengths == {20, 35}

InitScreen ==
    /\ \E n \in ScreenLengths :
           daily_prices = [s \in Stocks |-> IF s = "2330" THEN History(n) ELSE ThinHistory(n)]
    /\ technical_indicators = {}
    /\ monthly_revenue = NoFacts
    /\ financial_statements = NoFacts
    /\ dividends = NoFacts
    /\ connections = 0
    /\ saves = 0
    /\ batch = Idle
    /\ lastOp = [op |-> "none"]
    /\ CrawlersIdle

NextScreen ==
    \/ \E s \in Stocks : CalculateIndicatorsForStock(s, "none")
    \/ \E s \in Stocks, bar \in CrawledBars :
           SaveDailyPrice(s, LastDate(daily_prices[s]) + 1, bar)
    \/ \E strategy \in RequestedStrategies, rsi_threshold \in RequestedThresholds,
          fault \in {"none", "getConnection", "select"} :
           GetScreenStrategy(strategy, rsi_threshold, fault)

SpecScreen == InitScreen /\ [][NextScreen]_vars

----------------------------------------------------------------------------
(* The screener over a listed market: more instruments match a preset than    *)
(* the 50 rows its query keeps.  The instrument at position i of Listed has    *)
(* sort keys that grow with i, so the order of every preset is known.          *)

Listed ==
    <<
      "2330", "2317", "1101", "1102", "1103", "1104", "1105", "1106", "1107",
      "1108", "1109", "1110", "1111", "1112", "1113", "1114", "1115", "1116",
      "1117", "1118", "1119", "1120", "1121", "1122", "1123", "1124", "1125",
      "1126", "1127", "1128", "1129", "1130", "1131", "1132", "1133", "1134",
      "1135", "1136", "1137", "1138", "1139", "1140", "1141", "1142", "1143",
      "1144", "1145", "1146", "1147", "1148", "1149", "1150", "1151", "1152"
    >>

Position(stockId) == CHOOSE i \in 1..Len(Listed) : Listed[i] = stockId

\* stored price rows of every instrument
RankDays == 23

\* the instrument that matches no preset on its latest day, though it did the day before
Laggard == "1101"

\* the instrument whose volume was fifty times larger more than 20 days ago
Fading == "1104"

\* with a tie, the instruments at positions 4 and 5 share every sort key
RankKey(i, tie) == IF tie /\ i = 5 THEN 4 ELSE i

RankVolume(i, d, tie, fading) ==
    IF d = RankDays THEN (IF Listed[i] = Laggard THEN 2000 ELSE 3000 + 10 * RankKey(i, tie))
    ELSE IF fading /\ Listed[i] = Fading /\ d <= RankDays - 21 THEN 50000
    ELSE 1000

RankPrices(i, tie, fading) ==
    [d \in 1..RankDays |->
        [trade_date |-> d, high_price |-> 100 + RankKey(i, tie) + 2,
         low_price |-> 100 + RankKey(i, tie) - 2, close_price |-> 100 + RankKey(i, tie),
         volume |-> Some(RankVolume(i, d, tie, fading))]]

\* the indicator row of a day on which the instrument matches every indicator preset
RankMatch(i, d, tie) ==
    [stock_id |-> Listed[i], trade_date |-> d,
     ma5 |-> Some(10100), ma10 |-> Null, ma20 |-> Some(10000), ma60 |-> Null,
     rsi |-> Some((60 - RankKey(i, tie)) * 100),
     macd |-> Some(RankKey(i, tie)), macd_signal |-> Some(0),
     macd_histogram |-> Some(RankKey(i, tie)),
     kd_k |-> Null, kd_d |-> Null,
     bollinger_upper |-> Some(10000 + (60 - RankKey(i, tie))),
     bollinger_middle |-> Some(10000),
     bollinger_lower |-> Some(10000 - (60 - RankKey(i, tie))),
     vwap |-> Null, atr |-> Null, adx |-> Null, plus_di |-> Null, minus_di |-> Null,
     williams_r |-> Null, obv |-> Some(0)]

\* the indicator row of a day on which the instrument matches no indicator preset but
\* sets up a cross on the next day
RankQuiet(i, d) ==
    [RankMatch(i, d, FALSE) EXCEPT !.ma5 = Some(10000), !.rsi = Some(5000),
                                   !.macd = Some(0), !.macd_histogram = Some(0),
                                   !.bollinger_upper = Null, !.bollinger_lower = Null]

RankIndicators(i, tie) ==
    IF Listed[i] = Laggard THEN {RankMatch(i, RankDays - 1, tie), RankQuiet(i, RankDays)}
    ELSE {RankQuiet(i, RankDays - 1), RankMatch(i, RankDays, tie)}

\* sizes of the market: up to 50 matching instruments, and more than 50
Markets == {3, 8, 51, 54}

InitRank ==
    /\ \E n \in Markets, tie \in BOOLEAN, fading \in BOOLEAN :
           /\ daily_prices = [s \in {Listed[i] : i \in 1..n} |->
                                 RankPrices(Position(s), tie, fading)]
           /\ technical_indicators = UNION {RankIndicators(i, tie) : i \in 1..n}
    /\ monthly_revenue = NoFacts
    /\ financial_statements = NoFacts
    /\ dividends = NoFacts
    /\ connections = 0
    /\ saves = 0
    /\ batch = Idle
    /\ lastOp = [op |-> "none"]
    /\ CrawlersIdle

NextRank ==
    \E strategy \in Presets, rsi_threshold \in {Null, Some(70 * 100)} :
        GetScreenStrategy(strategy, rsi_threshold, "none")

SpecRank == InitRank /\ [][NextRank]_vars

----------------------------------------------------------------------------
(* src/analysis/strategies.js: scoreStock.  A JavaScript NaN is Null here: *)
(* every comparison with it is false.                                       *)

Lt(a, b) == ~IsNull(a) /\ ~IsNull(b) /\ Val(a) < Val(b)

Ge(a, b) == ~IsNull(a) /\ ~IsNull(b) /\ Val(a) >= Val(b)

\* the whole number n as a double
Num(n) == Some(n * FP)

parseFloatCoerced(x) == IF IsNull(x) THEN Some(0) ELSE Some(parseFloat(Val(x)))

\* parseFloat(column) of a DECIMAL(_, 2) column: NaN when the column is NULL
parseFloatNullable(x) == IF IsNull(x) THEN Null ELSE Some(parseFloat(Val(x)))

\* parseFloat(column) of a DECIMAL(10, 4) column
parseFloat4Nullable(x) == IF IsNull(x) THEN Null ELSE Some(Val(x) * (FP \div 10000))

\* Math.round(x): floor(x + 0.5)
MathRound(x) == (x + FP \div 2) \div FP

ClampScoreFloor(score) == Max2(0, MathRound(score * FP))

\* Math.max(0, Math.min(100, Math.round(score)))
ClampScore(score) == Max2(0, Min2(100, MathRound(score * FP)))

\* SELECT ... FROM daily_prices WHERE stock_id = ? ORDER BY trade_date DESC LIMIT limit
SelectDescLimit(rows, limit) ==
    [i \in 1..Min2(Len(rows), limit) |-> rows[Len(rows) - i + 1]]

RsiAdjustment(rsi) ==
    IF IsNull(rsi) THEN 0
    ELSE IF Ge(rsi, Num(30)) /\ Le(rsi, Num(50)) THEN 10
    ELSE IF Gt(rsi, Num(50)) /\ Le(rsi, Num(70)) THEN 5
    ELSE IF Gt(rsi, Num(70)) THEN -5
    ELSE IF Lt(rsi, Num(30)) THEN -5
    ELSE 0

MaAdjustment(close, ma5, ma20) ==
    IF IsNull(ma5) \/ IsNull(ma20) THEN 0
    ELSE IF Gt(close, ma5) /\ Gt(ma5, ma20) THEN 10
    ELSE IF Lt(close, ma5) /\ Lt(ma5, ma20) THEN -10
    ELSE 0

Ma60Adjustment(close, ma60) == IF ~IsNull(ma60) /\ Gt(close, ma60) THEN 5 ELSE 0

MacdAdjustment(macdHist) ==
    IF IsNull(macdHist) THEN 0 ELSE IF Gt(macdHist, Num(0)) THEN 8 ELSE -8

KdAdjustment(kd_k, kd_d) ==
    IF IsNull(kd_k) \/ IsNull(kd_d) THEN 0
    ELSE (IF Gt(kd_k, kd_d) /\ Lt(kd_k, Num(80)) THEN 8
          ELSE IF Lt(kd_k, kd_d) /\ Gt(kd_k, Num(20)) THEN -5
          ELSE 0)
         + (IF Gt(kd_k, Num(80)) THEN -3 ELSE 0)
         + (IF Lt(kd_k, Num(20)) THEN 3 ELSE 0)

\* parseInt(volume): NaN for NULL
parseIntNullable(v) == v

\* dpRows.slice(1).reduce((s, r) => s + parseInt(r.volume), 0): NaN once a volume is NULL
PriorVolumeSum(dpRows) ==
    IF \E i \in 2..Len(dpRows) : IsNull(parseIntNullable(dpRows[i].volume)) THEN Null
    ELSE Some(Sum([i \in 1..(Len(dpRows) - 1) |-> Val(dpRows[i + 1].volume)]))

\* todayVol / (sum / 20) > num / den, for sum > 0
VolRatioAbove(todayVol, sum, num, den) ==
    ~IsNull(todayVol) /\ Val(todayVol) * 20 * den > num * Val(sum)

VolumeAdjustmentOf(todayVol, sum, close, ma5) ==
    IF IsNull(sum) \/ ~(Val(sum) > 0) THEN 0
    ELSE IF VolRatioAbove(todayVol, sum, 3, 2) /\ Gt(close, ma5) THEN 5
    ELSE IF VolRatioAbove(todayVol, sum, 2, 1) /\ Lt(close, ma5) THEN -5
    ELSE 0

VolumeAdjustment(dpRows, close, ma5) ==
    IF Len(dpRows) >= 21
    THEN VolumeAdjustmentOf(parseIntNullable(dpRows[1].volume), PriorVolumeSum(dpRows),
                            close, ma5)
    ELSE 0

AdxAdjustment(adx, plusDI, minusDI) ==
    IF IsNull(adx) \/ IsNull(plusDI) \/ IsNull(minusDI) THEN 0
    ELSE IF Gt(adx, Num(25)) /\ Gt(plusDI, minusDI) THEN 5
    ELSE IF Gt(adx, Num(25)) /\ Gt(minusDI, plusDI) THEN -5
    ELSE 0

\* pos = bWidth > 0 ? (close - bLower) / bWidth : 0.5, compared without dividing
BollingerPosition(offset, bWidth) ==
    IF ~(bWidth > 0) THEN 0
    ELSE IF 2 * offset > bWidth /\ 5 * offset < 4 * bWidth THEN 3
    ELSE IF 5 * offset >= 4 * bWidth THEN -2
    ELSE IF 5 * offset <= bWidth THEN 2
    ELSE 0

BollingerAdjustment(close, bUpper, bLower) ==
    IF IsNull(bUpper) \/ IsNull(bLower) THEN 0
    ELSE BollingerPosition(Val(close) - Val(bLower), Val(bUpper) - Val(bLower))

\* the score of the latest indicator row ti and the latest price rows dpRows
TechnicalScore(ti, dpRows, close, ma5) ==
    ClampScore(50
               + RsiAdjustment(parseFloatNullable(ti.rsi))
               + MaAdjustment(close, ma5, parseFloatNullable(ti.ma20))
               + Ma60Adjustment(close, parseFloatNullable(ti.ma60))
               + MacdAdjustment(parseFloat4Nullable(ti.macd_histogram))
               + KdAdjustment(parseFloatNullable(ti.kd_k), parseFloatNullable(ti.kd_d))
               + VolumeAdjustment(dpRows, close, ma5)
               + AdxAdjustment(parseFloatNullable(ti.adx), parseFloatNullable(ti.plus_di),
                               parseFloatNullable(ti.minus_di))
               + BollingerAdjustment(close, parseFloatNullable(ti.bollinger_upper),
                                     parseFloatNullable(ti.bollinger_lower)))

\* const ti = tiRows[0]; const close = parseFloat(dpRows[0].close_price)
ScoreRows(ti, dpRows) ==
    TechnicalScore(ti, dpRows, Some(parseFloat(dpRows[1].close_price)),
                   parseFloatNullable(ti.ma5))

\* scoreStock(stockId): null without an indicator row or a price row, else the score
scoreStock(stockId) ==
    IF IndicatorRows(stockId) = {} \/ Len(daily_prices[stockId]) = 0 THEN Null
    ELSE Some(ScoreRows(MaxDateRow(IndicatorRows(stockId)),
                        SelectDescLimit(daily_prices[stockId], 21)))

----------------------------------------------------------------------------
(* src/analysis/fundamentalAnalysis.js: the fundamental score.  revenue_yoy *)
(* is DECIMAL(5,2) (hundredths of a percent point), eps and cash_dividend   *)
(* are DECIMAL(10,4) (ten-thousandths); a toFixed(2) string is an integer   *)
(* of hundredths.  Of each analysis the fields scoreFundamental reads are   *)
(* modelled.                                                                 *)

\* analyzeRevenueTrend(stockId, 6): null without rows, else latest_yoy of the latest month
analyzeRevenueTrend(stockId) ==
    IF Len(monthly_revenue[stockId]) = 0 THEN Null
    ELSE Some([latest_yoy |-> monthly_revenue[stockId][1].revenue_yoy])

\* SELECT eps FROM financial_statements WHERE eps IS NOT NULL
\* ORDER BY year DESC, quarter DESC LIMIT limit
SelectEps(stockId, limit) ==
    SelectAscLimit(SelectSeq([i \in 1..Len(financial_statements[stockId]) |->
                                 financial_statements[stockId][i].eps],
                             LAMBDA e : ~IsNull(e)),
                   limit)

\* (((current - prev) / Math.abs(prev)) * 100).toFixed(2)
YoyGrowth(current, prev) == Round((current - prev) * 100 * 100, Abs(prev))

\* the epsGrowth entries, oldest first; data is rows.reverse(), so data[i] is
\* rows[Len - i + 1] and the entry of data[i] compares it with data[i - 4]
EpsGrowth(rows) ==
    LET n == Len(rows)
        idx == SelectSeq([k \in 1..Max2(n - 4, 0) |-> n - 4 - k + 1],
                         LAMBDA j : Val(rows[j + 4]) # 0)
    IN  [k \in 1..Len(idx) |-> YoyGrowth(Val(rows[idx[k]]), Val(rows[idx[k] + 4]))]

\* analyzeEPSTrend(stockId): null without rows, else eps_ttm (toFixed(2)) and yoy_growth
analyzeEPSTrend(stockId) ==
    IF Len(SelectEps(stockId, 8)) = 0 THEN Null
    ELSE Some([eps_ttm |->
                   ToFixed2(Sum([i \in 1..Min2(4, Len(SelectEps(stockId, 8))) |->
                                    Val(SelectEps(stockId, 8)[i])])),
               yoy_growth |-> EpsGrowth(SelectEps(stockId, 8))])

\* pe_ratio = (price / epsTTM).toFixed(2) when epsTTM > 0, else null
PeRatio(price, epsTTM) ==
    IF epsTTM > 0 THEN Some(Round(price * 100 * 100, epsTTM)) ELSE Null

\* dividend_yield = (cashDiv / price * 100).toFixed(2) when cashDiv > 0 and price > 0
DividendYield(stockId, price) ==
    IF Len(dividends[stockId]) = 0 THEN Null
    ELSE IF parseVolume(dividends[stockId][1].cash_dividend) > 0 /\ price > 0
         THEN Some(Round(Val(dividends[stockId][1].cash_dividend) * 100, price))
         ELSE Null

\* calculateValuation(stockId): null without a price row, else pe_ratio and dividend_yield
calculateValuation(stockId) ==
    IF Len(daily_prices[stockId]) = 0 THEN Null
    ELSE Some([pe_ratio |->
                   IF Len(SelectEps(stockId, 4)) = 0 THEN Null
                   ELSE PeRatio(daily_prices[stockId][Len(daily_prices[stockId])].close_price,
                                Sum([i \in 1..Len(SelectEps(stockId, 4)) |->
                                        Val(SelectEps(stockId, 4)[i])])),
               dividend_yield |->
                   DividendYield(stockId,
                                 daily_prices[stockId][Len(daily_prices[stockId])].close_price)])

RevenueAdjustment(revenue) ==
    IF IsNull(revenue) THEN 0
    ELSE IF IsNull(Val(revenue).latest_yoy) THEN 0
    ELSE IF Val(Val(revenue).latest_yoy) > 20 * 100 THEN 15
    ELSE IF Val(Val(revenue).latest_yoy) > 10 * 100 THEN 10
    ELSE IF Val(Val(revenue).latest_yoy) > 0 THEN 5
    ELSE IF Val(Val(revenue).latest_yoy) > -10 * 100 THEN -5
    ELSE -10

LastGrowthAdjustment(yoy_growth) ==
    IF Len(yoy_growth) = 0 THEN 0
    ELSE IF yoy_growth[Len(yoy_growth)] > 20 * 100 THEN 10
    ELSE IF yoy_growth[Len(yoy_growth)] > 0 THEN 5
    ELSE -5

EpsAdjustment(eps) ==
    IF IsNull(eps) THEN 0
    ELSE (IF Val(eps).eps_ttm > 0 THEN 5 ELSE 0) + LastGrowthAdjustment(Val(eps).yoy_growth)

PeAdjustment(pe) ==
    IF IsNull(pe) THEN 0
    ELSE IF Val(pe) > 0 /\ Val(pe) < 12 * 100 THEN 10
    ELSE IF Val(pe) >= 12 * 100 /\ Val(pe) < 20 * 100 THEN 5
    ELSE IF Val(pe) >= 30 * 100 THEN -5
    ELSE 0

ValuationAdjustment(valuation) ==
    IF IsNull(valuation) THEN 0
    ELSE PeAdjustment(Val(valuation).pe_ratio)
         + (IF Gt(Val(valuation).dividend_yield, Some(5 * 100)) THEN 5 ELSE 0)

\* scoreFundamental(stockId): always an object; its score
scoreFundamental(stockId) ==
    Some(ClampScore(50
                    + RevenueAdjustment(analyzeRevenueTrend(stockId))
                    + EpsAdjustment(analyzeEPSTrend(stockId))
                    + ValuationAdjustment(calculateValuation(stockId))))

----------------------------------------------------------------------------
(* The callers that combine the two scores: GET /api/stocks/:stockId/score  *)
(* and the score_stock tool                                                  *)

TotalScoreTechnicalFirst(technical, fundamental) ==
    IF ~IsNull(technical) THEN technical ELSE fundamental

\* totalScore: Math.round(technical.score * 0.5 + fundamental.score * 0.5) with both,
\* else the one that is not null, else null
TotalScore(technical, fundamental) ==
    IF ~IsNull(technical) /\ ~IsNull(fundamental)
    THEN Some(MathRound(Val(technical) * (FP \div 2) + Val(fundamental) * (FP \div 2)))
    ELSE IF ~IsNull(technical) THEN technical
    ELSE IF ~IsNull(fundamental) THEN fundamental
    ELSE Null

\* what either caller answers; a rejected query reaches its catch block
ScoreAnswer(via, stockId, fault, technical, fundamental) ==
    IF fault = "select"
    THEN [op |-> "score", via |-> via, stock_id |-> stockId, failed |-> TRUE]
    ELSE [op |-> "score", via |-> via, stock_id |-> stockId, failed |-> FALSE,
          total_score |-> TotalScore(technical, fundamental),
          technical_score |-> technical,
          fundamental_score |-> fundamental]

\* GET /api/stocks/:stockId/score
GetStockScore(stockId, fault) ==
    /\ batch.pc = "idle"
    /\ lastOp' = ScoreAnswer("http", stockId, fault, scoreStock(stockId),
                             scoreFundamental(stockId))
    /\ UNCHANGED crawlerVars
    /\ UNCHANGED <<daily_prices, technical_indicators, monthly_revenue,
                   financial_statements, dividends, connections, saves, batch>>

\* the score_stock tool of the MCP server
ScoreStockTool(stockId, fault) ==
    /\ batch.pc = "idle"
    /\ lastOp' = ScoreAnswer("mcp", stockId, fault, scoreStock(stockId),
                             scoreFundamental(stockId))
    /\ UNCHANGED crawlerVars
    /\ UNCHANGED <<daily_prices, technical_indicators, monthly_revenue,
                   financial_statements, dividends, connections, saves, batch>>

----------------------------------------------------------------------------
(* The scorers over stored rows drawn from bounded sets: stock 2330 has one *)
(* indicator row and 20 or 21 price rows closing at 1.00, stock 2317 has    *)
(* neither; both have the same financial facts.                              *)

RsiCore == {[rsi |-> Null], [rsi |-> Some(4000)], [rsi |-> Some(8000)]}

RsiExtra == {[rsi |-> Some(2000)], [rsi |-> Some(6000)], [rsi |-> Some(3000)]}

MaCore ==
    {[ma5 |-> Null, ma20 |-> Null], [ma5 |-> Some(98), ma20 |-> Some(96)],
     [ma5 |-> Some(102), ma20 |-> Some(104)]}

MaExtra == {[ma5 |-> Some(98), ma20 |-> Null], [ma5 |-> Null, ma20 |-> Some(96)]}

Ma60Core == {[ma60 |-> Null], [ma60 |-> Some(95)]}

Ma60Extra == {[ma60 |-> Some(105)]}

MacdCore ==
    {[macd_histogram |-> Null], [macd_histogram |-> Some(50)], [macd_histogram |-> Some(0)]}

MacdExtra == {[macd_histogram |-> Some(-50)]}

KdCore ==
    {[kd_k |-> Null, kd_d |-> Null], [kd_k |-> Some(1500), kd_d |-> Some(1000)],
     [kd_k |-> Some(9000), kd_d |-> Some(9500)]}

KdExtra == {[kd_k |-> Some(5000), kd_d |-> Null], [kd_k |-> Some(5000), kd_d |-> Some(4000)]}

AdxCore ==
    {[adx |-> Null, plus_di |-> Null, minus_di |-> Null],
     [adx |-> Some(3000), plus_di |-> Some(2500), minus_di |-> Some(1500)],
     [adx |-> Some(3000), plus_di |-> Some(1500), minus_di |-> Some(2500)]}

AdxExtra ==
    {[adx |-> Some(3000), plus_di |-> Null, minus_di |-> Some(1500)],
     [adx |-> Some(2000), plus_di |-> Some(2500), minus_di |-> Some(1500)]}

BollingerCore ==
    {[bollinger_upper |-> Null, bollinger_lower |-> Null],
     [bollinger_upper |-> Some(110), bollinger_lower |-> Some(80)],
     [bollinger_upper |-> Some(101), bollinger_lower |-> Some(91)]}

BollingerExtra ==
    {[bollinger_upper |-> Some(130), bollinger_lower |-> Some(100)],
     [bollinger_upper |-> Some(100), bollinger_lower |-> Some(100)],
     [bollinger_upper |-> Some(110), bollinger_lower |-> Null]}

\* the price rows: 20 rows, or 21 rows whose latest volume is three times the average
PricesCore == {[rows |-> 20, volume |-> Some(1000)], [rows |-> 21, volume |-> Some(3000)]}

PricesExtra == {[rows |-> 21, volume |-> Null], [rows |-> 21, volume |-> Some(1000)]}

TechCore ==
    [rsi : RsiCore, ma : MaCore, ma60 : Ma60Core, macd : MacdCore, kd : KdCore,
     adx : AdxCore, bollinger : BollingerCore, prices : PricesCore]

\* every indicator absent; every adjustment upwards; every adjustment downwards
TechBases ==
    {[rsi |-> [rsi |-> Null], ma |-> [ma5 |-> Null, ma20 |-> Null], ma60 |-> [ma60 |-> Null],
      macd |-> [macd_histogram |-> Null], kd |-> [kd_k |-> Null, kd_d |-> Null],
      adx |-> [adx |-> Null, plus_di |-> Null, minus_di |-> Null],
      bollinger |-> [bollinger_upper |-> Null, bollinger_lower |-> Null],
      prices |-> [rows |-> 21, volume |-> Some(3000)]],
     [rsi |-> [rsi |-> Some(4000)], ma |-> [ma5 |-> Some(98), ma20 |-> Some(96)],
      ma60 |-> [ma60 |-> Some(95)], macd |-> [macd_histogram |-> Some(50)],
      kd |-> [kd_k |-> Some(1500), kd_d |-> Some(1000)],
      adx |-> [adx |-> Some(3000), plus_di |-> Some(2500), minus_di |-> Some(1500)],
      bollinger |-> [bollinger_upper |-> Some(110), bollinger_lower |-> Some(80)],
      prices |-> [rows |-> 21, volume |-> Some(3000)]],
     [rsi |-> [rsi |-> Some(8000)], ma |-> [ma5 |-> Some(102), ma20 |-> Some(104)],
      ma60 |-> [ma60 |-> Null], macd |-> [macd_histogram |-> Some(0)],
      kd |-> [kd_k |-> Some(9000), kd_d |-> Some(9500)],
      adx |-> [adx |-> Some(3000), plus_di |-> Some(1500), minus_di |-> Some(2500)],
      bollinger |-> [bollinger_upper |-> Some(101), bollinger_lower |-> Some(91)],
      prices |-> [rows |-> 21, volume |-> Some(3000)]]}

\* a base with one group replaced by a value beside the core ones
TechExtra ==
    UNION {{[b EXCEPT !.rsi = x] : x \in RsiExtra} \cup {[b EXCEPT !.ma = x] : x \in MaExtra}
           \cup {[b EXCEPT !.ma60 = x] : x \in Ma60Extra}
           \cup {[b EXCEPT !.macd = x] : x \in MacdExtra}
           \cup {[b EXCEPT !.kd = x] : x \in KdExtra}
           \cup {[b EXCEPT !.adx = x] : x \in AdxExtra}
           \cup {[b EXCEPT !.bollinger = x] : x \in BollingerExtra}
           \cup {[b EXCEPT !.prices = x] : x \in PricesExtra} : b \in TechBases}

\* the technical_indicators row of a profile
IndicatorRow(stockId, date, tech) ==
    tech.rsi @@ tech.ma @@ tech.ma60 @@ tech.macd @@ tech.kd @@ tech.adx @@ tech.bollinger
    @@ [stock_id |-> stockId, trade_date |-> date, ma10 |-> Null, macd |-> Null,
        macd_signal |-> Null, bollinger_middle |-> Null, vwap |-> Null, atr |-> Null,
        williams_r |-> Null, obv |-> Some(0)]

\* n price rows closing at 1.00 with volume 1000, the latest with the given volume
ScoredPrices(n, volume) ==
    [d \in 1..n |-> [trade_date |-> d, high_price |-> 102, low_price |-> 98,
                     close_price |-> 100, volume |-> IF d = n THEN volume ELSE Some(1000)]]

\* monthly_revenue rows, latest month first
RevenueChoices ==
    {<<>>, <<[revenue_yoy |-> Null]>>, <<[revenue_yoy |-> Some(2500)]>>,
     <<[revenue_yoy |-> Some(1500)], [revenue_yoy |-> Some(-2500)]>>,
     <<[revenue_yoy |-> Some(500)]>>, <<[revenue_yoy |-> Some(0)]>>,
     <<[revenue_yoy |-> Some(-500)]>>, <<[revenue_yoy |-> Some(-1500)], [revenue_yoy |-> Some(2500)]>>}

\* n quarters of the same eps
Quarters(n, eps) == [i \in 1..n |-> [eps |-> eps]]

\* financial_statements rows, latest quarter first
EpsChoices ==
    {<<>>,
     Quarters(4, Some(250)),
     <<[eps |-> Null]>> \o Quarters(4, Some(250)) \o Quarters(4, Some(200)),
     Quarters(4, Some(150)) \o Quarters(4, Some(145)),
     Quarters(4, Some(100)) \o Quarters(4, Some(0)),
     Quarters(4, Some(50)) \o Quarters(4, Some(100)),
     Quarters(4, Some(-100)) \o Quarters(4, Some(100)),
     Quarters(2, Null)}

\* dividends rows, latest year first
DividendChoices ==
    {<<>>, <<[cash_dividend |-> Some(600)]>>, <<[cash_dividend |-> Some(300)]>>,
     <<[cash_dividend |-> Null]>>}

FundProfiles == [revenue : RevenueChoices, eps : EpsChoices, dividend : DividendChoices]

\* no financial facts at all; the facts that fire every upward adjustment
FundFew ==
    {[revenue |-> <<>>, eps |-> <<>>, dividend |-> <<>>],
     [revenue |-> <<[revenue_yoy |-> Some(2500)]>>,
      eps |-> <<[eps |-> Null]>> \o Quarters(4, Some(250)) \o Quarters(4, Some(200)),
      dividend |-> <<[cash_dividend |-> Some(600)]>>]}

InitScoreWith(tech, fund) ==
    /\ daily_prices = [s \in Stocks |-> IF s = "2330"
                                       THEN ScoredPrices(tech.prices.rows, tech.prices.volume)
                                       ELSE <<>>]
    /\ technical_indicators = {IndicatorRow("2330", tech.prices.rows, tech)}
    /\ monthly_revenue = [s \in Stocks |-> fund.revenue]
    /\ financial_statements = [s \in Stocks |-> fund.eps]
    /\ dividends = [s \in Stocks |-> fund.dividend]
    /\ connections = 0
    /\ saves = 0
    /\ batch = Idle
    /\ lastOp = [op |-> "none"]
    /\ CrawlersIdle

InitScore ==
    \/ \E tech \in TechCore \cup TechExtra, fund \in FundFew : InitScoreWith(tech, fund)
    \/ \E tech \in TechBases, fund \in FundProfiles : InitScoreWith(tech, fund)

NextScore ==
    \/ \E s \in Stocks, fault \in {"none", "select"} : GetStockScore(s, fault)
    \/ \E s \in Stocks, fault \in {"none", "select"} : ScoreStockTool(s, fault)

SpecScore == InitScore /\ [][NextScore]_vars

----------------------------------------------------------------------------
(* src/crawler/finmindApi.js: the sliding-window limiter in front of every  *)
(* FinMind request.  Node runs the code between two awaits without          *)
(* interruption, so waitForRateLimit is one step up to its await and one    *)
(* step after its timer fires.                                              *)

RATE_LIMIT == 550

RATE_WINDOW_MS == 60 * 60 * 1000

\* calls of fetchFinMindData made per dataset
MaxCalls == 1

\* the clock advances in steps of TickMs, up to MaxIdleMs past the last admission
TickMs == 500

MaxIdleMs == 1000

\* while (requestTimestamps.length > 0 && requestTimestamps[0] < now - RATE_WINDOW_MS)
\*     requestTimestamps.shift()
Shifted(timestamps, now) ==
    LET kept == {i \in 1..Len(timestamps) : timestamps[i] >= now - RATE_WINDOW_MS}
    IN  IF kept = {} THEN <<>>
        ELSE SubSeq(timestamps, CHOOSE i \in kept : \A j \in kept : i <= j, Len(timestamps))

\* waitMs of a call that finds the window full
WaitMs(timestamps, now) == timestamps[1] + RATE_WINDOW_MS - now + 100

\* fetchFinMindData(dataset): waitForRateLimit up to its await, or to its end when the
\* call is admitted at once
FetchFinMindData(dataset) ==
    /\ fetches[dataset].pc = "idle"
    /\ fetches[dataset].calls < MaxCalls
    /\ IF Len(Shifted(requestTimestamps, clock)) >= RATE_LIMIT
       THEN /\ requestTimestamps' = Shifted(requestTimestamps, clock)
            /\ fetches' = [fetches EXCEPT ![dataset] =
                   [pc |-> "waiting", calls |-> @.calls + 1,
                    wakeAt |-> clock + WaitMs(Shifted(requestTimestamps, clock), clock)]]
       ELSE /\ requestTimestamps' = Append(Shifted(requestTimestamps, clock), clock)
            /\ fetches' = [fetches EXCEPT ![dataset] =
                   [pc |-> "requesting", calls |-> @.calls + 1]]
    /\ UNCHANGED clock
    /\ UNCHANGED engineVars
    /\ UNCHANGED <<crawledTables, fallback>>

\* the timer of a delayed call fires: requestTimestamps.push(Date.now())
TimerFires(dataset) ==
    /\ fetches[dataset].pc = "waiting"
    /\ clock >= fetches[dataset].wakeAt
    /\ requestTimestamps' = Append(requestTimestamps, clock)
    /\ fetches' = [fetches EXCEPT ![dataset] = [pc |-> "requesting", calls |-> @.calls]]
    /\ UNCHANGED clock
    /\ UNCHANGED engineVars
    /\ UNCHANGED <<crawledTables, fallback>>

\* axios.get settles: the data is returned, or the HTTP / API status is thrown
Responded(dataset, outcome) ==
    /\ fetches[dataset].pc = "requesting"
    /\ fetches' = [fetches EXCEPT ![dataset] =
           [pc |-> "idle", calls |-> @.calls, outcome |-> outcome]]
    /\ UNCHANGED <<requestTimestamps, clock>>
    /\ UNCHANGED engineVars
    /\ UNCHANGED <<crawledTables, fallback>>

Waiting == {d \in Datasets : fetches[d].pc = "waiting"}

\* time passes while requests are being made
Tick ==
    /\ requestTimestamps # <<>>
    /\ clock + TickMs <= requestTimestamps[Len(requestTimestamps)] + MaxIdleMs
    /\ clock' = clock + TickMs
    /\ UNCHANGED <<requestTimestamps, fetches>>
    /\ UNCHANGED engineVars
    /\ UNCHANGED <<crawledTables, fallback>>

\* nothing happens until the earliest timer is due
Sleep ==
    /\ Waiting # {}
    /\ \A d \in Waiting : fetches[d].wakeAt > clock
    /\ clock' = fetches[CHOOSE d \in Waiting :
                            \A e \in Waiting : fetches[d].wakeAt <= fetches[e].wakeAt].wakeAt
    /\ UNCHANGED <<requestTimestamps, fetches>>
    /\ UNCHANGED engineVars
    /\ UNCHANGED <<crawledTables, fallback>>

\* requests already admitted during the last hour, one every SpacingMs
PriorRequests == {548, 549, 550}

SpacingMs == 1000

InitLimiter ==
    /\ daily_prices = NoFacts
    /\ technical_indicators = {}
    /\ monthly_revenue = NoFacts
    /\ financial_statements = NoFacts
    /\ dividends = NoFacts
    /\ connections = 0
    /\ saves = 0
    /\ batch = Idle
    /\ lastOp = [op |-> "none"]
    /\ \E k \in PriorRequests :
           /\ requestTimestamps = [i \in 1..k |-> (i - 1) * SpacingMs]
           /\ clock = (k - 1) * SpacingMs
    /\ fetches = [d \in Datasets |-> [pc |-> "idle", calls |-> 0]]
    /\ margin_trading = <<>>
    /\ institutional_trading = <<>>
    /\ financial_ratios = <<>>
    /\ fallback = NoLoop

NextLimiter ==
    \/ \E d \in Datasets : FetchFinMindData(d)
    \/ \E d \in Datasets : TimerFires(d)
    \/ \E d \in Datasets, outcome \in {"data", "error"} : Responded(d, outcome)
    \/ Tick
    \/ Sleep

SpecLimiter == InitLimiter /\ [][NextLimiter]_vars

----------------------------------------------------------------------------
(* The crawlers' saves.  A save is one step: the queries it sends run in    *)
(* order on one connection and nothing else touches the tables meanwhile.   *)
(* failAt numbers the query that the database fails (0: none does).         *)

\* the first INSERT of a save that the database rejects: the one the fault hits, or one
\* whose stock_id is no row of stocks (foreign key); 0 when every INSERT succeeds
FirstRejected(records, failAt) ==
    LET bad == {k \in 1..Len(records) :
                   k = failAt \/ records[k].stock_id \notin StocksTable}
    IN  IF bad = {} THEN 0 ELSE CHOOSE k \in bad : \A j \in bad : k <= j

\* an INSERT that ignores the unique key
InsertRow(table, r) == Append(table, r)

\* INSERT ... ON DUPLICATE KEY UPDATE under UNIQUE KEY (stock_id, trade_date): every
\* column but the key is replaced
UpsertDated(table, r) ==
    IF \E i \in 1..Len(table) : SameKey(table[i], r)
    THEN [i \in 1..Len(table) |-> IF SameKey(table[i], r) THEN r ELSE table[i]]
    ELSE Append(table, r)

\* the table after the first n INSERTs of the loop
InsertedDated(table, records, n) ==
    ForLoop(LAMBDA t, i : UpsertDated(t, records[i]), table, 1, n)

\* beginTransaction, the INSERT loop, commit; rollback in catch.  The result tells
\* whether the save threw and what the table holds afterwards
TransactionDated(table, records, failAt) ==
    IF FirstRejected(records, failAt) # 0 \/ failAt = Len(records) + 1
    THEN [threw |-> TRUE, table |-> table]
    ELSE [threw |-> FALSE, table |-> InsertedDated(table, records, Len(records))]

\* fetchAndSaveMarginTrading(date), records being what fetchMarginTrading returned
fetchAndSaveMarginTrading(records, failAt) ==
    IF Len(records) = 0 THEN [threw |-> FALSE, table |-> margin_trading]
    ELSE TransactionDated(margin_trading, records, failAt)

\* records.filter(r => validIds.has(r.stock_id))
FilteredRecords(records) == SelectSeq(records, LAMBDA r : r.stock_id \in StocksTable)

\* fetchAndSaveInstitutionalTrading(date)
fetchAndSaveInstitutionalTrading(records, failAt) ==
    IF Len(records) = 0 THEN [threw |-> FALSE, table |-> institutional_trading]
    ELSE TransactionDated(institutional_trading, FilteredRecords(records), failAt)

\* the columns of daily_prices that the model keeps
PriceRow(record) ==
    [trade_date |-> record.trade_date, high_price |-> record.high_price,
     low_price |-> record.low_price, close_price |-> record.close_price,
     volume |-> record.volume]

\* daily_prices after the first n INSERTs of fetchBatchDailyPrices
InsertedPrices(table, records, n) ==
    ForLoop(LAMBDA t, i : [t EXCEPT ![records[i].stock_id] =
                               UpsertDailyPrice(@, PriceRow(records[i]))],
            table, 1, n)

\* fetchBatchDailyPrices(stockIds, date), records being the rows fetchDailyPrice returned
\* for the stocks in turn: no transaction is opened, every INSERT commits by itself
fetchBatchDailyPrices(records, failAt) ==
    IF FirstRejected(records, failAt) # 0
    THEN [threw |-> TRUE,
          table |-> InsertedPrices(daily_prices, records,
                                   FirstRejected(records, failAt) - 1)]
    ELSE [threw |-> FALSE, table |-> InsertedPrices(daily_prices, records, Len(records))]

\* crawler runs made so far count in saves, up to MaxCrawls
MaxCrawls == 2

Crawled(crawler, records, r) ==
    /\ batch.pc = "idle"
    /\ saves < MaxCrawls
    /\ saves' = saves + 1
    /\ lastOp' = [op |-> "crawl", crawler |-> crawler, records |-> records,
                  threw |-> r.threw,
                  again |-> /\ lastOp.op = "crawl"
                            /\ lastOp.crawler = crawler
                            /\ lastOp.records = records
                            /\ ~lastOp.threw]

FetchAndSaveMarginTrading(records, failAt) ==
    /\ Crawled("margin_trading", records, fetchAndSaveMarginTrading(records, failAt))
    /\ margin_trading' = fetchAndSaveMarginTrading(records, failAt).table
    /\ UNCHANGED <<daily_prices, technical_indicators, monthly_revenue,
                   financial_statements, dividends, connections, batch>>
    /\ UNCHANGED <<limiterVars, institutional_trading, financial_ratios, fallback>>

FetchAndSaveInstitutionalTrading(records, failAt) ==
    /\ Crawled("institutional_trading", records,
               fetchAndSaveInstitutionalTrading(records, failAt))
    /\ institutional_trading' = fetchAndSaveInstitutionalTrading(records, failAt).table
    /\ UNCHANGED <<daily_prices, technical_indicators, monthly_revenue,
                   financial_statements, dividends, connections, batch>>
    /\ UNCHANGED <<limiterVars, margin_trading, financial_ratios, fallback>>

FetchBatchDailyPrices(records, failAt) ==
    /\ Crawled("daily_prices", records, fetchBatchDailyPrices(records, failAt))
    /\ daily_prices' = fetchBatchDailyPrices(records, failAt).table
    /\ UNCHANGED <<technical_indicators, monthly_revenue, financial_statements,
                   dividends, connections, batch>>
    /\ UNCHANGED crawlerVars

\* the columns of monthly_revenue that follow the key
RevenueRow(record) ==
    [year |-> record.year, month |-> record.month, revenue |-> record.revenue,
     revenue_mom |-> record.revenue_mom, revenue_yoy |-> record.revenue_yoy,
     cumulative_revenue |-> record.cumulative_revenue,
     cumulative_yoy |-> record.cumulative_yoy]

SamePeriod(row, year, month) == row.year = year /\ row.month = month

\* INSERT ... ON DUPLICATE KEY UPDATE under UNIQUE KEY (stock_id, year, month), the rows
\* of a stock being kept latest month first
UpsertRevenue(rows, row) ==
    IF \E i \in 1..Len(rows) : SamePeriod(rows[i], row.year, row.month)
    THEN [i \in 1..Len(rows) |->
             IF SamePeriod(rows[i], row.year, row.month) THEN row ELSE rows[i]]
    ELSE SelectSeq(rows, LAMBDA r : r.year * 12 + r.month > row.year * 12 + row.month)
         \o <<row>>
         \o SelectSeq(rows, LAMBDA r : r.year * 12 + r.month < row.year * 12 + row.month)

InsertedRevenue(table, records, n) ==
    ForLoop(LAMBDA t, i : [t EXCEPT ![records[i].stock_id] =
                               UpsertRevenue(@, RevenueRow(records[i]))],
            table, 1, n)

\* prev.revenue of the LEFT JOIN: NULL when the stock has no row of that month
RevenueOf(rows, year, month) ==
    IF \E i \in 1..Len(rows) : SamePeriod(rows[i], year, month)
    THEN rows[CHOOSE i \in 1..Len(rows) : SamePeriod(rows[i], year, month)].revenue
    ELSE Null

\* CASE WHEN prev IS NOT NULL AND prev != 0 THEN ROUND((cur - prev) / prev * 100, 2)
\* ELSE NULL END, in hundredths of a percent
GrowthPercent(cur, prev) ==
    IF IsNull(prev) THEN Null
    ELSE IF Val(prev) = 0 \/ IsNull(cur) THEN Null
    ELSE Some(Round((Val(cur) - Val(prev)) * 100 * 100, Val(prev)))

\* SUM(revenue) over the months of the year up to the given one; NULL without a value
SumRevenue(rows, year, month) ==
    IF \A i \in 1..Len(rows) :
           ~(rows[i].year = year /\ rows[i].month <= month /\ ~IsNull(rows[i].revenue))
    THEN Null
    ELSE Some(Sum([i \in 1..Len(rows) |->
                      IF rows[i].year = year /\ rows[i].month <= month
                         /\ ~IsNull(rows[i].revenue)
                      THEN Val(rows[i].revenue) ELSE 0]))

\* the four UPDATEs of calculateGrowthRates, each on the rows of (year, month)
UpdateMom(table, year, month) ==
    [s \in DOMAIN table |-> [i \in 1..Len(table[s]) |->
        IF SamePeriod(table[s][i], year, month)
        THEN [table[s][i] EXCEPT !.revenue_mom =
                 GrowthPercent(table[s][i].revenue,
                               RevenueOf(table[s], IF month = 1 THEN year - 1 ELSE year,
                                         IF month = 1 THEN 12 ELSE month - 1))]
        ELSE table[s][i]]]

UpdateYoy(table, year, month) ==
    [s \in DOMAIN table |-> [i \in 1..Len(table[s]) |->
        IF SamePeriod(table[s][i], year, month)
        THEN [table[s][i] EXCEPT !.revenue_yoy =
                 GrowthPercent(table[s][i].revenue, RevenueOf(table[s], year - 1, month))]
        ELSE table[s][i]]]

UpdateCumulative(table, year, month) ==
    [s \in DOMAIN table |-> [i \in 1..Len(table[s]) |->
        IF SamePeriod(table[s][i], year, month)
        THEN [table[s][i] EXCEPT !.cumulative_revenue = SumRevenue(table[s], year, month)]
        ELSE table[s][i]]]

UpdateCumulativeYoy(table, year, month) ==
    [s \in DOMAIN table |-> [i \in 1..Len(table[s]) |->
        IF SamePeriod(table[s][i], year, month)
        THEN [table[s][i] EXCEPT !.cumulative_yoy =
                 GrowthPercent(table[s][i].cumulative_revenue,
                               SumRevenue(table[s], year - 1, month))]
        ELSE table[s][i]]]

\* calculateGrowthRates(connection, year, month) as far as its first n UPDATEs
calculateGrowthRates(table, year, month, n) ==
    IF n = 0 THEN table
    ELSE IF n = 1 THEN UpdateMom(table, year, month)
    ELSE IF n = 2 THEN UpdateYoy(UpdateMom(table, year, month), year, month)
    ELSE IF n = 3
    THEN UpdateCumulative(UpdateYoy(UpdateMom(table, year, month), year, month), year, month)
    ELSE UpdateCumulativeYoy(
             UpdateCumulative(UpdateYoy(UpdateMom(table, year, month), year, month),
                              year, month), year, month)

\* fetchAndSaveMonthlyRevenue(year, month): the INSERTs run in a transaction, the
\* UPDATEs of calculateGrowthRates after its commit.  Queries Len(records) + 2 to
\* Len(records) + 5 are the four UPDATEs
fetchAndSaveMonthlyRevenue(year, month, records, failAt) ==
    IF Len(records) = 0 THEN [threw |-> FALSE, table |-> monthly_revenue]
    ELSE IF FirstRejected(records, failAt) # 0 \/ failAt = Len(records) + 1
    THEN [threw |-> TRUE, table |-> monthly_revenue]
    ELSE IF failAt \in (Len(records) + 2)..(Len(records) + 5)
    THEN [threw |-> TRUE,
          table |-> calculateGrowthRates(
                        InsertedRevenue(monthly_revenue, records, Len(records)),
                        year, month, failAt - Len(records) - 2)]
    ELSE [threw |-> FALSE,
          table |-> calculateGrowthRates(
                        InsertedRevenue(monthly_revenue, records, Len(records)),
                        year, month, 4)]

FetchAndSaveMonthlyRevenue(year, month, records, failAt) ==
    /\ Crawled("monthly_revenue", records,
               fetchAndSaveMonthlyRevenue(year, month, records, failAt))
    /\ monthly_revenue' = fetchAndSaveMonthlyRevenue(year, month, records, failAt).table
    /\ UNCHANGED <<daily_prices, technical_indicators, financial_statements, dividends,
                   connections, batch>>
    /\ UNCHANGED crawlerVars

\* the columns of financial_statements that the model keeps
StatementRow(r) ==
    [year |-> r.year, quarter |-> r.quarter, revenue |-> r.revenue,
     gross_profit |-> r.gross_profit, net_income |-> r.net_income, equity |-> r.equity,
     eps |-> r.eps]

\* (base && base !== 0 && part != null) ? part / base * 100 : null, as DECIMAL(5,2)
Margin(part, base) ==
    IF IsNull(base) THEN Null
    ELSE IF Val(base) = 0 \/ IsNull(part) THEN Null
    ELSE Some(Round(Val(part) * 100 * 100, Val(base)))

grossMargin(r) == Margin(r.gross_profit, r.revenue)

roe(r) == Margin(r.net_income, r.equity)

\* if (grossMargin != null || roe != null)
HasRatios(r) == ~IsNull(grossMargin(r)) \/ ~IsNull(roe(r))

RatioRow(r) ==
    [stock_id |-> r.stock_id, year |-> r.year, quarter |-> r.quarter,
     gross_margin |-> grossMargin(r), roe |-> roe(r)]

SameQuarter(row, r) == row.year = r.year /\ row.quarter = r.quarter

\* INSERT ... ON DUPLICATE KEY UPDATE under UNIQUE KEY (stock_id, year, quarter), the rows
\* of a stock being kept latest quarter first
UpsertStatement(rows, row) ==
    IF \E i \in 1..Len(rows) : SameQuarter(rows[i], row)
    THEN [i \in 1..Len(rows) |-> IF SameQuarter(rows[i], row) THEN row ELSE rows[i]]
    ELSE SelectSeq(rows, LAMBDA r : r.year * 4 + r.quarter > row.year * 4 + row.quarter)
         \o <<row>>
         \o SelectSeq(rows, LAMBDA r : r.year * 4 + r.quarter < row.year * 4 + row.quarter)

UpsertRatios(table, row) ==
    IF \E i \in 1..Len(table) : table[i].stock_id = row.stock_id /\ SameQuarter(table[i], row)
    THEN [i \in 1..Len(table) |->
             IF table[i].stock_id = row.stock_id /\ SameQuarter(table[i], row)
             THEN row ELSE table[i]]
    ELSE Append(table, row)

InsertedStatements(table, records) ==
    ForLoop(LAMBDA t, i : [t EXCEPT ![records[i].stock_id] =
                               UpsertStatement(@, StatementRow(records[i]))],
            table, 1, Len(records))

InsertedRatios(table, records) ==
    ForLoop(LAMBDA t, i : IF HasRatios(records[i]) THEN UpsertRatios(t, RatioRow(records[i]))
                          ELSE t,
            table, 1, Len(records))

\* saveRecords(records): query 2i - 1 is the INSERT of record i into financial_statements,
\* query 2i its INSERT into financial_ratios, query 2 * Len(records) + 1 the commit
saveRecords(records, failAt) ==
    IF \/ \E i \in 1..Len(records) :
              \/ records[i].stock_id \notin StocksTable
              \/ failAt = 2 * i - 1
              \/ failAt = 2 * i /\ HasRatios(records[i])
       \/ failAt = 2 * Len(records) + 1
    THEN [threw |-> TRUE, statements |-> financial_statements, ratios |-> financial_ratios]
    ELSE [threw |-> FALSE,
          statements |-> InsertedStatements(financial_statements, records),
          ratios |-> InsertedRatios(financial_ratios, records)]

\* fetchAndSaveFinancialStatements(year, quarter, stockId)
fetchAndSaveFinancialStatements(records, failAt) ==
    IF Len(records) = 0
    THEN [threw |-> FALSE, statements |-> financial_statements, ratios |-> financial_ratios]
    ELSE saveRecords(records, failAt)

FetchAndSaveFinancialStatements(records, failAt) ==
    /\ Crawled("financial_statements", records,
               fetchAndSaveFinancialStatements(records, failAt))
    /\ financial_statements' = fetchAndSaveFinancialStatements(records, failAt).statements
    /\ financial_ratios' = fetchAndSaveFinancialStatements(records, failAt).ratios
    /\ UNCHANGED <<daily_prices, technical_indicators, monthly_revenue, dividends,
                   connections, batch>>
    /\ UNCHANGED <<limiterVars, margin_trading, institutional_trading, fallback>>

\* what the crawlers fetched.  "9999" is a security that the stocks table does not list
PriceRecord(stockId, date, close, volume) ==
    [stock_id |-> stockId, trade_date |-> date, high_price |-> close + 2,
     low_price |-> close - 2, close_price |-> close, volume |-> volume]

PriceBatches ==
    {<<PriceRecord("2330", 3, 110, Some(3000)), PriceRecord("2330", 4, 111, Some(3100)),
       PriceRecord("2317", 4, 50, Null)>>,
     <<PriceRecord("2330", 4, 120, Some(500))>>}

MarginRecord(stockId, date, margin, short) ==
    [stock_id |-> stockId, trade_date |-> date, margin_balance |-> margin,
     short_balance |-> short]

MarginBatches ==
    {<<>>,
     <<MarginRecord("2330", 4, 500, 20), MarginRecord("2317", 4, 300, 0)>>,
     <<MarginRecord("2330", 4, 510, 25)>>,
     <<MarginRecord("2317", 4, 310, 5), MarginRecord("9999", 4, 10, 0)>>}

InstitutionalRecord(stockId, date, foreign, total) ==
    [stock_id |-> stockId, trade_date |-> date, foreign_net |-> foreign, total_net |-> total]

InstitutionalBatches ==
    {<<InstitutionalRecord("2330", 4, 1000, 1500),
       InstitutionalRecord("9999", 4, 10, 10),
       InstitutionalRecord("2317", 4, -200, -250)>>,
     <<InstitutionalRecord("2330", 4, 900, 1500)>>}

\* a record of buildRevenueRecords: the growth columns are null
RevenueRecord(stockId, year, month, revenue) ==
    [stock_id |-> stockId, year |-> year, month |-> month, revenue |-> revenue,
     revenue_mom |-> Null, revenue_yoy |-> Null, cumulative_revenue |-> Null,
     cumulative_yoy |-> Null]

CrawlYear == 2026

RevenueBatches ==
    {<<RevenueRecord("2330", CrawlYear, 2, Some(120)),
       RevenueRecord("2317", CrawlYear, 2, Some(50))>>,
     <<RevenueRecord("2330", CrawlYear, 2, Some(130))>>,
     <<RevenueRecord("2330", CrawlYear, 2, Null)>>}

\* the months stored before the crawl: last month, and the same months a year ago
StoredRevenue ==
    [s \in Stocks |->
        IF s = "2330"
        THEN <<RevenueRow(RevenueRecord(s, CrawlYear, 1, Some(100))),
               RevenueRow(RevenueRecord(s, CrawlYear - 1, 2, Some(80))),
               RevenueRow(RevenueRecord(s, CrawlYear - 1, 1, Some(90)))>>
        ELSE <<>>]

StatementRecord(stockId, quarter, revenue, gross_profit, net_income, equity, eps) ==
    [stock_id |-> stockId, year |-> CrawlYear - 1, quarter |-> quarter,
     revenue |-> revenue, gross_profit |-> gross_profit, net_income |-> net_income,
     equity |-> equity, eps |-> eps]

StatementBatches ==
    {<<StatementRecord("2330", 4, Some(1000), Some(400), Some(200), Some(2000), Some(25000)),
       StatementRecord("2317", 4, Null, Null, Null, Null, Some(10000))>>,
     <<StatementRecord("2330", 4, Some(1000), Some(500), Some(250), Some(2000), Some(30000)),
       StatementRecord("2330", 3, Some(900), Null, Some(90), Some(0), Null)>>}

\* the queries of a save that the fault may hit
MaxQueries == 7

InitCrawl ==
    /\ daily_prices = [s \in Stocks |-> History(3)]
    /\ technical_indicators = {}
    /\ monthly_revenue = StoredRevenue
    /\ financial_statements = NoFacts
    /\ dividends = NoFacts
    /\ connections = 0
    /\ saves = 0
    /\ batch = Idle
    /\ lastOp = [op |-> "none"]
    /\ CrawlersIdle

NextCrawl ==
    \/ \E records \in PriceBatches, failAt \in 0..MaxQueries :
           FetchBatchDailyPrices(records, failAt)
    \/ \E records \in MarginBatches, failAt \in 0..MaxQueries :
           FetchAndSaveMarginTrading(records, failAt)
    \/ \E records \in InstitutionalBatches, failAt \in 0..MaxQueries :
           FetchAndSaveInstitutionalTrading(records, failAt)
    \/ \E records \in RevenueBatches, failAt \in 0..MaxQueries :
           FetchAndSaveMonthlyRevenue(CrawlYear, 2, records, failAt)
    \/ \E records \in StatementBatches, failAt \in 0..MaxQueries :
           FetchAndSaveFinancialStatements(records, failAt)

SpecCrawl == InitCrawl /\ [][NextCrawl]_vars

----------------------------------------------------------------------------
(* src/analysis/strategies.js: the five signal detectors and detectAllSignals. *)
(* A detector returns Null or the event it found.                              *)

\* ORDER BY trade_date DESC LIMIT n over rows of one stock
OrderByDateDescLimit(rows, limit) ==
    [i \in 1..Min2(Cardinality(rows), limit) |->
        CHOOSE r \in rows : Cardinality({q \in rows : q.trade_date > r.trade_date}) = i - 1]

Event(signal, row) == Some([signal |-> signal, date |-> row.trade_date])

\* a cross counted only when MA5 was strictly on the other side the day before
MACrossoverStrict(rows) ==
    IF Len(rows) < 2 THEN Null
    ELSE IF /\ Lt(parseFloatNullable(rows[2].ma5), parseFloatNullable(rows[2].ma20))
            /\ Gt(parseFloatNullable(rows[1].ma5), parseFloatNullable(rows[1].ma20))
    THEN Event("golden_cross", rows[1])
    ELSE IF /\ Gt(parseFloatNullable(rows[2].ma5), parseFloatNullable(rows[2].ma20))
            /\ Lt(parseFloatNullable(rows[1].ma5), parseFloatNullable(rows[1].ma20))
    THEN Event("death_cross", rows[1])
    ELSE Null

MACrossoverOf(rows) ==
    IF Len(rows) < 2 THEN Null
    ELSE IF /\ Le(parseFloatNullable(rows[2].ma5), parseFloatNullable(rows[2].ma20))
            /\ Gt(parseFloatNullable(rows[1].ma5), parseFloatNullable(rows[1].ma20))
    THEN Event("golden_cross", rows[1])
    ELSE IF /\ Ge(parseFloatNullable(rows[2].ma5), parseFloatNullable(rows[2].ma20))
            /\ Lt(parseFloatNullable(rows[1].ma5), parseFloatNullable(rows[1].ma20))
    THEN Event("death_cross", rows[1])
    ELSE Null

detectMACrossover(stockId) ==
    MACrossoverOf(OrderByDateDescLimit(
        {r \in IndicatorRows(stockId) : ~IsNull(r.ma5) /\ ~IsNull(r.ma20)}, 5))

\* the first test that holds decides; a later test is not reached
RSIOversoldLastFirst(rows) ==
    IF Len(rows) < 2 THEN Null
    ELSE IF Gt(parseFloatNullable(rows[1].rsi), Num(70)) THEN Event("rsi_overbought", rows[1])
    ELSE IF Lt(parseFloatNullable(rows[1].rsi), Num(30)) THEN Event("rsi_oversold", rows[1])
    ELSE IF /\ Lt(parseFloatNullable(rows[2].rsi), Num(30))
            /\ Ge(parseFloatNullable(rows[1].rsi), Num(30))
    THEN Event("rsi_bounce", rows[1])
    ELSE Null

RSIOversoldOf(rows) ==
    IF Len(rows) < 2 THEN Null
    ELSE IF /\ Lt(parseFloatNullable(rows[2].rsi), Num(30))
            /\ Ge(parseFloatNullable(rows[1].rsi), Num(30))
    THEN Event("rsi_bounce", rows[1])
    ELSE IF Lt(parseFloatNullable(rows[1].rsi), Num(30)) THEN Event("rsi_oversold", rows[1])
    ELSE IF Gt(parseFloatNullable(rows[1].rsi), Num(70)) THEN Event("rsi_overbought", rows[1])
    ELSE Null

detectRSIOversold(stockId) ==
    RSIOversoldOf(OrderByDateDescLimit({r \in IndicatorRows(stockId) : ~IsNull(r.rsi)}, 5))

MACDCrossoverOf(rows) ==
    IF Len(rows) < 2 THEN Null
    ELSE IF /\ Le(parseFloat4Nullable(rows[2].macd_histogram), Num(0))
            /\ Gt(parseFloat4Nullable(rows[1].macd_histogram), Num(0))
    THEN Event("macd_golden_cross", rows[1])
    ELSE IF /\ Ge(parseFloat4Nullable(rows[2].macd_histogram), Num(0))
            /\ Lt(parseFloat4Nullable(rows[1].macd_histogram), Num(0))
    THEN Event("macd_death_cross", rows[1])
    ELSE Null

\* a detector that remembers the event it reported and reports it only once
detectMACDCrossoverOnce(stockId) ==
    IF /\ lastOp.op = "detect"
       /\ lastOp.detector = "detectMACDCrossover"
       /\ lastOp.stock_id = stockId
       /\ ~IsNull(lastOp.result)
    THEN Null
    ELSE MACDCrossoverOf(OrderByDateDescLimit(
             {r \in IndicatorRows(stockId) : ~IsNull(r.macd) /\ ~IsNull(r.macd_signal)}, 5))

detectMACDCrossover(stockId) ==
    MACDCrossoverOf(OrderByDateDescLimit(
        {r \in IndicatorRows(stockId) : ~IsNull(r.macd) /\ ~IsNull(r.macd_signal)}, 5))

\* a breakout that needs only 20 rows and averages the 19 before the latest
VolumeBreakoutShort(rows) ==
    IF Len(rows) < 20 THEN Null
    ELSE IF IsNull(parseIntNullable(rows[1].volume)) \/ IsNull(PriorVolumeSum(rows)) THEN Null
    ELSE IF Val(rows[1].volume) * 19 > Val(PriorVolumeSum(rows)) * 2
    THEN Event("volume_breakout", rows[1])
    ELSE Null

\* todayVolume > avgVolume * 2, avgVolume being the sum of rows.slice(1) divided by 20
VolumeBreakoutOf(rows) ==
    IF Len(rows) < 21 THEN Null
    ELSE IF IsNull(parseIntNullable(rows[1].volume)) \/ IsNull(PriorVolumeSum(rows)) THEN Null
    ELSE IF Val(rows[1].volume) * 20 > Val(PriorVolumeSum(rows)) * 2
    THEN Event("volume_breakout", rows[1])
    ELSE Null

detectVolumeBreakout(stockId) == VolumeBreakoutOf(SelectDescLimit(daily_prices[stockId], 21))

\* ti JOIN daily_prices dp on the date, WHERE bollinger_upper IS NOT NULL
BollingerJoin(stockId) ==
    {[trade_date |-> j[1].trade_date, close_price |-> Some(j[2].close_price),
      bollinger_upper |-> j[1].bollinger_upper, bollinger_lower |-> j[1].bollinger_lower] :
        j \in {x \in {r \in IndicatorRows(stockId) : ~IsNull(r.bollinger_upper)}
                      \X {daily_prices[stockId][i] : i \in 1..Len(daily_prices[stockId])} :
                  x[1].trade_date = x[2].trade_date}}

BollingerBreakoutOf(rows) ==
    IF Len(rows) < 1 THEN Null
    ELSE IF Gt(parseFloatNullable(rows[1].close_price),
               parseFloatNullable(rows[1].bollinger_upper))
    THEN Event("bollinger_breakout_up", rows[1])
    ELSE IF Lt(parseFloatNullable(rows[1].close_price),
               parseFloatNullable(rows[1].bollinger_lower))
    THEN Event("bollinger_breakout_down", rows[1])
    ELSE Null

detectBollingerBreakout(stockId) ==
    BollingerBreakoutOf(OrderByDateDescLimit(BollingerJoin(stockId), 2))

\* the detectors array of detectAllSignals
Detectors ==
    <<"detectMACrossover", "detectRSIOversold", "detectMACDCrossover",
      "detectVolumeBreakout", "detectBollingerBreakout">>

Detect(detector, stockId) ==
    IF detector = "detectMACrossover" THEN detectMACrossover(stockId)
    ELSE IF detector = "detectRSIOversold" THEN detectRSIOversold(stockId)
    ELSE IF detector = "detectMACDCrossover" THEN detectMACDCrossover(stockId)
    ELSE IF detector = "detectVolumeBreakout" THEN detectVolumeBreakout(stockId)
    ELSE detectBollingerBreakout(stockId)

\* a loop that returns at the first event
RunUntilFirst(detectors, stockId) ==
    ForLoop(LAMBDA signals, i :
                IF IsNull(Detect(detectors[i], stockId)) \/ signals # <<>> THEN signals
                ELSE Append(signals, Val(Detect(detectors[i], stockId))),
            <<>>, 1, Len(detectors))

\* for (const detector of detectors) { result = await detector(stockId);
\*                                     if (result) signals.push(result) }
RunDetectors(detectors, stockId) ==
    ForLoop(LAMBDA signals, i :
                IF IsNull(Detect(detectors[i], stockId)) THEN signals
                ELSE Append(signals, Val(Detect(detectors[i], stockId))),
            <<>>, 1, Len(detectors))

detectAllSignals(stockId) == RunDetectors(Detectors, stockId)

\* a caller invokes one detector
DetectSignal(detector, stockId) ==
    /\ batch.pc = "idle"
    /\ lastOp' = [op |-> "detect", detector |-> detector, stock_id |-> stockId,
                  result |-> Detect(detector, stockId),
                  again |-> /\ lastOp.op = "detect"
                            /\ lastOp.detector = detector
                            /\ lastOp.stock_id = stockId]
    /\ UNCHANGED <<daily_prices, technical_indicators, monthly_revenue,
                   financial_statements, dividends, connections, saves, batch>>
    /\ UNCHANGED crawlerVars

\* GET /api/analysis/signals/:stockId and the MCP tool call detectAllSignals
DetectAllSignals(stockId) ==
    /\ batch.pc = "idle"
    /\ lastOp' = [op |-> "detectAllSignals", stock_id |-> stockId,
                  signals |-> detectAllSignals(stockId),
                  again |-> lastOp.op = "detectAllSignals" /\ lastOp.stock_id = stockId]
    /\ UNCHANGED <<daily_prices, technical_indicators, monthly_revenue,
                   financial_statements, dividends, connections, saves, batch>>
    /\ UNCHANGED crawlerVars

\* stored records on which the detectors run: the values of one indicator on the last
\* three days, oldest first, and the price rows
MaPairs ==
    {<<Null, Null>>, <<Some(9900), Some(10000)>>, <<Some(10000), Some(10000)>>,
     <<Some(10100), Some(10000)>>, <<Some(10100), Null>>}

MaTriples == {<<a, b, c>> : a \in {<<Null, Null>>, <<Some(9900), Some(10000)>>},
                            b \in MaPairs, c \in MaPairs}

RsiValues == {Null, Some(2999), Some(3000), Some(7000), Some(7001)}

RsiTriples == {<<a, b, c>> : a \in {Null, Some(2000)}, b \in RsiValues, c \in RsiValues}

HistogramValues == {Null, Some(-50), Some(0), Some(50)}

HistogramTriples ==
    {<<a, b, c>> : a \in {Null, Some(-50)}, b \in HistogramValues, c \in HistogramValues}

\* the bands of the latest day, the close being 1.00
BandChoices ==
    {[upper |-> Some(102), lower |-> Some(98)], [upper |-> Some(99), lower |-> Some(95)],
     [upper |-> Some(105), lower |-> Some(101)], [upper |-> Some(100), lower |-> Some(100)],
     [upper |-> Null, lower |-> Null]}

\* price rows: their number, the latest volume, and whether one earlier volume is NULL;
\* every other volume is 1000
VolumeChoices ==
    [rows : {20, 21, 22}, volume : {Null, Some(1999), Some(2000), Some(2001)},
     gap : {FALSE}]
    \cup {[rows |-> 21, volume |-> Some(5000), gap |-> TRUE]}

\* every detector fires; no detector fires
SignalBases ==
    {[ma |-> <<<<Null, Null>>, <<Some(10000), Some(10000)>>, <<Some(10100), Some(10000)>>>>,
      rsi |-> <<Null, Some(2999), Some(3000)>>,
      histogram |-> <<Null, Some(0), Some(50)>>,
      band |-> [upper |-> Some(99), lower |-> Some(95)],
      prices |-> [rows |-> 21, volume |-> Some(2001), gap |-> FALSE]],
     [ma |-> <<<<Null, Null>>, <<Some(10100), Some(10000)>>, <<Some(10100), Some(10000)>>>>,
      rsi |-> <<Null, Some(3000), Some(7000)>>,
      histogram |-> <<Null, Some(50), Some(50)>>,
      band |-> [upper |-> Some(102), lower |-> Some(98)],
      prices |-> [rows |-> 21, volume |-> Some(2000), gap |-> FALSE]]}

SignalProfiles ==
    UNION {{[b EXCEPT !.ma = x] : x \in MaTriples}
           \cup {[b EXCEPT !.rsi = x] : x \in RsiTriples}
           \cup {[b EXCEPT !.histogram = x] : x \in HistogramTriples}
           \cup {[b EXCEPT !.band = x] : x \in BandChoices}
           \cup {[b EXCEPT !.prices = x] : x \in VolumeChoices} : b \in SignalBases}

\* the technical_indicators row of day k of the last three (3 is the latest)
SignalRow(stockId, profile, k) ==
    [stock_id |-> stockId, trade_date |-> profile.prices.rows - 3 + k,
     ma5 |-> profile.ma[k][1], ma10 |-> Null, ma20 |-> profile.ma[k][2], ma60 |-> Null,
     rsi |-> profile.rsi[k],
     macd |-> profile.histogram[k],
     macd_signal |-> IF IsNull(profile.histogram[k]) THEN Null ELSE Some(0),
     macd_histogram |-> profile.histogram[k],
     kd_k |-> Null, kd_d |-> Null,
     bollinger_upper |-> IF k = 3 THEN profile.band.upper ELSE Null,
     bollinger_middle |-> IF k = 3 /\ ~IsNull(profile.band.upper) THEN Some(100) ELSE Null,
     bollinger_lower |-> IF k = 3 THEN profile.band.lower ELSE Null,
     vwap |-> Null, atr |-> Null, adx |-> Null, plus_di |-> Null, minus_di |-> Null,
     williams_r |-> Null, obv |-> Some(0)]

SignalPrices(prices) ==
    [d \in 1..prices.rows |->
        [trade_date |-> d, high_price |-> 102, low_price |-> 98, close_price |-> 100,
         volume |-> IF d = prices.rows THEN prices.volume
                    ELSE IF prices.gap /\ d = prices.rows - 5 THEN Null
                    ELSE Some(1000)]]

InitSignals ==
    /\ \E profile \in SignalProfiles :
           /\ daily_prices = [s \in Stocks |-> IF s = "2330" THEN SignalPrices(profile.prices)
                                                ELSE <<>>]
           /\ technical_indicators = {SignalRow("2330", profile, k) : k \in 1..3}
    /\ monthly_revenue = NoFacts
    /\ financial_statements = NoFacts
    /\ dividends = NoFacts
    /\ connections = 0
    /\ saves = 0
    /\ batch = Idle
    /\ lastOp = [op |-> "none"]
    /\ CrawlersIdle

NextSignals ==
    \/ \E s \in Stocks, i \in 1..Len(Detectors) : DetectSignal(Detectors[i], s)
    \/ \E s \in Stocks : DetectAllSignals(s)

SpecSignals == InitSignals /\ [][NextSignals]_vars

----------------------------------------------------------------------------
(* The indicator functions applied to series drawn from bounded sets.  The    *)
(* bar of day d of a shape does not depend on the length of the series, so    *)
(* the series of lengths 1..MaxBars of a shape are the prefixes of one series *)
(* and the result on the series of length n is the state of a function's loop *)
(* after bar n.                                                                *)

MaxBars == 40

SeriesShapes ==
    {"history", "flat", "rising", "falling", "plateau", "ramp", "outside", "swing"}

\* bar d of a series: a well-formed history; one constant price; never-decreasing closes
\* with repeats; falling closes; moves followed by a constant price; a constant price
\* followed by moves; closes above the day's high; wide moves around 100.00
SeriesBar(shape, d) ==
    CASE shape = "history" -> Bar(d)
      [] shape = "flat" ->
            [trade_date |-> d, high_price |-> 100, low_price |-> 100, close_price |-> 100,
             volume |-> Some(1000)]
      [] shape = "rising" ->
            [trade_date |-> d, high_price |-> 101 + d \div 2, low_price |-> 99 + d \div 2,
             close_price |-> 100 + d \div 2, volume |-> Some(1000 + d)]
      [] shape = "falling" ->
            [trade_date |-> d, high_price |-> 201 - d, low_price |-> 199 - d,
             close_price |-> 200 - d, volume |-> Some(1000 + d)]
      [] shape = "plateau" ->
            IF d <= 4 THEN Bar(d)
            ELSE [trade_date |-> d, high_price |-> 100, low_price |-> 100,
                  close_price |-> 100, volume |-> Some(500)]
      [] shape = "ramp" ->
            IF d <= 16
            THEN [trade_date |-> d, high_price |-> 100, low_price |-> 100,
                  close_price |-> 100, volume |-> Some(500)]
            ELSE [Bar(d) EXCEPT !.volume = Some(700 + d)]
      [] shape = "outside" ->
            [trade_date |-> d, high_price |-> 100, low_price |-> 90,
             close_price |-> IF d % 2 = 0 THEN 200 ELSE 50, volume |-> Some(1000)]
      [] shape = "swing" ->
            LET close == 10000 + 37 * ((d * d) % 11) - 29 * (d % 7)
            IN  [trade_date |-> d, high_price |-> close + 40 + 13 * (d % 3),
                 low_price |-> close - 35 - 17 * (d % 4), close_price |-> close,
                 volume |-> Some(1000 + 10 * (d % 9))]

Series(shape, n) == [d \in 1..n |-> SeriesBar(shape, d)]

\* rows.map(r => parseFloat(r.close_price)) and its like in calculateIndicatorsForStock
Closes(rows) == [i \in 1..Len(rows) |-> parseFloat(rows[i].close_price)]

Highs(rows) == [i \in 1..Len(rows) |-> parseFloat(rows[i].high_price)]

Lows(rows) == [i \in 1..Len(rows) |-> parseFloat(rows[i].low_price)]

Volumes(rows) == [i \in 1..Len(rows) |-> parseVolume(rows[i].volume)]

\* periods of the exponential series: the three the engine uses, and a short one
EmaPeriods == {2, 9, 12, 26}

\* a call of one of the functions on the series of the stock; nothing is stored
Applied(function, stockId, period, result) ==
    /\ lastOp' = [op |-> function, stock_id |-> stockId, period |-> period,
                  result |-> result]
    /\ UNCHANGED crawlerVars
    /\ UNCHANGED <<daily_prices, technical_indicators, monthly_revenue,
                   financial_statements, dividends, connections, saves, batch>>

ApplyEMASeries(stockId, period) ==
    Applied("calculateEMASeries", stockId, period,
            calculateEMASeries(Closes(daily_prices[stockId]), period))

ApplyRSI(stockId) ==
    Applied("calculateRSI", stockId, 14, calculateRSI(Closes(daily_prices[stockId]), 14))

ApplyMACD(stockId) ==
    Applied("calculateMACD", stockId, 0, calculateMACD(Closes(daily_prices[stockId])))

ApplyKD(stockId) ==
    Applied("calculateKD", stockId, 9,
            calculateKD(Highs(daily_prices[stockId]), Lows(daily_prices[stockId]),
                        Closes(daily_prices[stockId]), 9))

ApplyATR(stockId) ==
    Applied("calculateATR", stockId, 14,
            calculateATR(Highs(daily_prices[stockId]), Lows(daily_prices[stockId]),
                         Closes(daily_prices[stockId]), 14))

ApplyDMI(stockId) ==
    Applied("calculateDMI", stockId, 14,
            calculateDMI(Highs(daily_prices[stockId]), Lows(daily_prices[stockId]),
                         Closes(daily_prices[stockId]), 14))

ApplyWilliamsR(stockId) ==
    Applied("calculateWilliamsR", stockId, 14,
            calculateWilliamsR(Highs(daily_prices[stockId]), Lows(daily_prices[stockId]),
                               Closes(daily_prices[stockId]), 14))

ApplyOBV(stockId) ==
    Applied("calculateOBV", stockId, 0,
            calculateOBV(Closes(daily_prices[stockId]), Volumes(daily_prices[stockId])))

InitSeries ==
    /\ \E shape \in SeriesShapes, n \in 1..MaxBars :
           daily_prices = [s \in Stocks |-> IF s = "2330" THEN Series(shape, n) ELSE <<>>]
    /\ technical_indicators = {}
    /\ monthly_revenue = NoFacts
    /\ financial_statements = NoFacts
    /\ dividends = NoFacts
    /\ connections = 0
    /\ saves = 0
    /\ batch = Idle
    /\ lastOp = [op |-> "none"]
    /\ CrawlersIdle

NextSeries ==
    \/ \E s \in Stocks, period \in EmaPeriods : ApplyEMASeries(s, period)
    \/ \E s \in Stocks : ApplyRSI(s)
    \/ \E s \in Stocks : ApplyMACD(s)
    \/ \E s \in Stocks : ApplyKD(s)
    \/ \E s \in Stocks : ApplyATR(s)
    \/ \E s \in Stocks : ApplyDMI(s)
    \/ \E s \in Stocks : ApplyWilliamsR(s)
    \/ \E s \in Stocks : ApplyOBV(s)

SpecSeries == InitSeries /\ [][NextSeries]_vars

----------------------------------------------------------------------------
(* The stock-by-stock loop of fetchFinancialStatements and fetchMonthlyRevenue, *)
(* entered when the request for all stocks at once is refused.  Each await of    *)
(* the loop is one step: the fetch of stock i settles, the 15 s timer fires.     *)
(* axios gives up after 30 s and the limiter's timer fires, so a fetch always    *)
(* settles.  stockIds is the number of active stocks selected, attempts the      *)
(* number of fetches made for stock i.                                           *)

\* active stocks selected by a run
MaxStockIds == 3

\* fetches of one stock explored
MaxAttempts == 8

FallbackCrawlers == {"fetchFinancialStatements", "fetchMonthlyRevenue"}

\* err.message.includes('402') or not, for a rejected fetch
FetchOutcomes == {"resolved", "402", "other"}

\* a counter that forgets the failures
ForgetFails(consecutiveFails) == 0

\* consecutiveFails++
CountFail(consecutiveFails) == consecutiveFails + 1

\* i++ and the loop test, after an iteration that did not break
NextIteration(loop, consecutiveFails) ==
    [loop EXCEPT !.i = loop.i + 1,
                 !.consecutiveFails = consecutiveFails,
                 !.attempts = IF loop.i + 1 < loop.stockIds THEN 1 ELSE 0,
                 !.pc = IF loop.i + 1 < loop.stockIds THEN "fetch" ELSE "done"]

\* the catch block on a message with 402
After402(loop, consecutiveFails) ==
    [loop EXCEPT !.consecutiveFails = consecutiveFails,
                 !.pc = IF consecutiveFails > 5 THEN "stopped" ELSE "wait"]

\* one iteration up to its end or its second await
FallbackIteration(loop, outcome) ==
    IF outcome = "resolved" THEN NextIteration(loop, 0)
    ELSE IF outcome = "402" THEN After402(loop, CountFail(loop.consecutiveFails))
    ELSE NextIteration(loop, loop.consecutiveFails)

FallbackFrame ==
    /\ UNCHANGED engineVars
    /\ UNCHANGED <<limiterVars, crawledTables>>

\* the request for all stocks was refused: let consecutiveFails = 0; for (let i = 0; ...
BeginFallback(crawler, stockIds) ==
    /\ fallback.pc = "idle"
    /\ fallback' = [pc |-> IF stockIds > 0 THEN "fetch" ELSE "done", crawler |-> crawler,
                    stockIds |-> stockIds, i |-> 0, consecutiveFails |-> 0,
                    attempts |-> IF stockIds > 0 THEN 1 ELSE 0]
    /\ FallbackFrame

\* the fetch of stockIds[i] settles
FallbackFetchSettles(outcome) ==
    /\ fallback.pc = "fetch"
    /\ fallback' = FallbackIteration(fallback, outcome)
    /\ FallbackFrame

\* the 15 s timer fires: i--, then the loop's i++ and the next fetch of the same stock
FallbackTimerFires ==
    /\ fallback.pc = "wait"
    /\ fallback.attempts < MaxAttempts
    /\ fallback' = [fallback EXCEPT !.pc = "fetch", !.attempts = fallback.attempts + 1]
    /\ FallbackFrame

InitFallback ==
    /\ daily_prices = [s \in Stocks |-> <<>>]
    /\ technical_indicators = {}
    /\ monthly_revenue = NoFacts
    /\ financial_statements = NoFacts
    /\ dividends = NoFacts
    /\ connections = 0
    /\ saves = 0
    /\ batch = Idle
    /\ lastOp = [op |-> "none"]
    /\ CrawlersIdle

NextFallback ==
    \/ \E crawler \in FallbackCrawlers, stockIds \in 0..MaxStockIds :
           BeginFallback(crawler, stockIds)
    \/ \E outcome \in FetchOutcomes : FallbackFetchSettles(outcome)
    \/ FallbackTimerFires

\* every await of the loop settles
SpecFallback == InitFallback /\ [][NextFallback]_vars /\ WF_vars(NextFallback)

----------------------------------------------------------------------------
(* The pool of database/connection.js and the operations that take a          *)
(* connection from it.  calculateIndicatorsForStock, screenByStrategy and the  *)
(* crawlers' saves acquire before a try block whose finally block releases, so *)
(* their steps leave the number of held connections as it was;                 *)
(* fetchRecentPrices releases inside its try block.                            *)

connectionLimit == 10

\* fetchRecentPrices(): fault names the awaited call of its own that rejects, records and
\* failAt are those of the fetchBatchDailyPrices call it ends with.  held counts the
\* connections the call leaves acquired
fetchRecentPrices(fault, records, failAt) ==
    IF fault = "getConnection" THEN [threw |-> TRUE, held |-> 0, table |-> daily_prices]
    ELSE IF fault = "select" THEN [threw |-> TRUE, held |-> 1, table |-> daily_prices]
    ELSE [threw |-> fetchBatchDailyPrices(records, failAt).threw, held |-> 0,
          table |-> fetchBatchDailyPrices(records, failAt).table]

\* with waitForConnections a getConnection on an exhausted pool waits for a release, so
\* the call completes only while a connection is free
FetchRecentPrices(fault, records, failAt) ==
    /\ batch.pc = "idle"
    /\ connections < connectionLimit
    /\ connections' = connections + fetchRecentPrices(fault, records, failAt).held
    /\ daily_prices' = fetchRecentPrices(fault, records, failAt).table
    /\ lastOp' = [op |-> "fetchRecentPrices", fault |-> fault,
                  threw |-> fetchRecentPrices(fault, records, failAt).threw]
    /\ UNCHANGED <<technical_indicators, monthly_revenue, financial_statements,
                   dividends, saves, batch>>
    /\ UNCHANGED crawlerVars

InitPool ==
    /\ daily_prices = [s \in Stocks |-> IF s = "2330" THEN History(20) ELSE History(3)]
    /\ technical_indicators = {}
    /\ monthly_revenue = NoFacts
    /\ financial_statements = NoFacts
    /\ dividends = NoFacts
    /\ connections = 0
    /\ saves = 0
    /\ batch = Idle
    /\ lastOp = [op |-> "none"]
    /\ CrawlersIdle

NextPool ==
    \/ \E s \in Stocks, fault \in Faults : CalculateIndicatorsForStock(s, fault)
    \/ \E strategy \in RequestedStrategies, fault \in {"none", "getConnection", "select"} :
           GetScreenStrategy(strategy, Null, fault)
    \/ \E fault \in {"none", "getConnection", "select"}, records \in PriceBatches,
          failAt \in 0..2 :
           FetchRecentPrices(fault, records, failAt)

SpecPool == InitPool /\ [][NextPool]_vars

----------------------------------------------------------------------------
(* Properties of the indicator engine *)

\* the last operation was calculateIndicatorsForStock and its INSERT was executed
Wrote ==
    /\ lastOp.op = "calculateIndicatorsForStock"
    /\ lastOp.outcome \in {"inserted", "updated"}

\* the rows the engine's SELECT returns for the stock of the last operation
Selected == SelectAscLimit(daily_prices[lastOp.stock_id], 250)

\* C1: whenever the engine writes a record for an instrument with at least 20 stored
\* rows (more than 250 included), the record is dated at the instrument's most recent
\* stored trade date
C1_RecordAtMostRecentDate ==
    Wrote => lastOp.indicators.trade_date = LastDate(daily_prices[lastOp.stock_id])

\* C2: a run of the engine on an instrument with fewer than 20 stored rows computes
\* nothing and leaves technical_indicators exactly as it was
C2_InsufficientHistoryWritesNothing ==
    [][(/\ lastOp'.op = "calculateIndicatorsForStock"
        /\ daily_prices' = daily_prices
        /\ Len(daily_prices[lastOp'.stock_id]) < 20)
       => (/\ technical_indicators' = technical_indicators
           /\ IsNull(lastOp'.indicators))]_vars

C2_Witness ==
    /\ lastOp.op = "calculateIndicatorsForStock"
    /\ lastOp.outcome = "insufficient"
    /\ lastOp.rows = 19
    /\ Len(daily_prices[lastOp.stock_id]) = 19

\* SUM(volume) over the 20-row VWAP window is zero
WindowVolumeZero(rows) ==
    \A i \in (Len(rows) - 19)..Len(rows) : parseVolume(rows[i].volume) = 0

\* C3: for a window of N >= 20 rows exactly the fields whose lookback N does not cover
\* are absent: MA60 iff N < 60, the MACD triple iff N < 35, ADX/+DI/-DI iff N < 29;
\* every other field is present, VWAP excepted when the window's volume is zero
C3_AbsentIffLookbackUncovered ==
    Wrote =>
        LET N == lastOp.rows
            r == lastOp.indicators
        IN  /\ N >= 20
            /\ IsNull(r.ma60) <=> N < 60
            /\ \A c \in {"macd", "macd_signal", "macd_histogram"} : IsNull(r[c]) <=> N < 35
            /\ \A c \in {"adx", "plus_di", "minus_di"} : IsNull(r[c]) <=> N < 29
            /\ \A c \in {"ma5", "ma10", "ma20", "rsi", "kd_k", "kd_d", "bollinger_upper",
                          "bollinger_middle", "bollinger_lower", "atr", "williams_r",
                          "obv"} : ~IsNull(r[c])
            /\ IsNull(r.vwap) <=> WindowVolumeZero(Selected)

C3_Witness ==
    /\ Wrote
    /\ lastOp.rows = 34
    /\ IsNull(lastOp.indicators.ma60)
    /\ IsNull(lastOp.indicators.macd)
    /\ ~IsNull(lastOp.indicators.adx)
    /\ ~IsNull(lastOp.indicators.vwap)

\* C4: technical_indicators holds at most one record per (instrument, date), and after
\* a run that writes, the stored record carries every field of the new computation,
\* absent fields stored as absent
C4_OneRecordPerKeyAllFieldsReplaced ==
    /\ \A r1, r2 \in technical_indicators : SameKey(r1, r2) => r1 = r2
    /\ Wrote => lastOp.indicators \in technical_indicators

C4_Witness ==
    /\ lastOp.op = "calculateIndicatorsForStock"
    /\ lastOp.outcome = "updated"
    /\ IsNull(lastOp.indicators.vwap)
    /\ lastOp.indicators \in technical_indicators

\* a stored row with a negative price, a negative volume or a non-numeric volume
Malformed(row) ==
    \/ row.high_price < 0 \/ row.low_price < 0 \/ row.close_price < 0
    \/ IsNull(row.volume)
    \/ Val(row.volume) < 0

\* C6: when a selected row carries a negative or non-numeric price or volume the engine
\* rejects the whole computation and writes no record
C6_MalformedInputRejected ==
    (/\ lastOp.op = "calculateIndicatorsForStock"
     /\ \E i \in 1..Len(Selected) : Malformed(Selected[i]))
    => ~Wrote

\* C5: in calculateAllIndicators a failure for one instrument (acquiring its connection,
\* reading its rows, computing, writing) is never what ends the batch
C5_InstrumentFailureNeverAbortsBatch ==
    (/\ lastOp.op = "calculateIndicatorsForStock"
     /\ lastOp.outcome \in {"threw", "failed"})
    => batch.pc # "rejected"

\* C7: a screener request whose strategy is none of the five presets runs no query and
\* is reported to the caller as an error, never as a successful result
C7_UnknownStrategyIsRequestError ==
    (/\ lastOp.op = "screenByStrategy"
     /\ lastOp.strategy \notin Presets)
    => (/\ lastOp.queries = 0
        /\ lastOp.response.status # 200
        /\ ~lastOp.response.body.success)

----------------------------------------------------------------------------
(* Properties of the scorers *)

\* the last operation answered a score request
Scored == lastOp.op = "score" /\ ~lastOp.failed

\* C8: whatever the indicator values, price/volume context and financial facts, the
\* scores of scoreStock and scoreFundamental are integers in [0,100]
C8_ScoresWithinRange ==
    Scored => \A x \in {lastOp.technical_score, lastOp.fundamental_score} :
                  IsNull(x) \/ Val(x) \in 0..100

C8_Witness ==
    /\ Scored
    /\ lastOp.technical_score = Some(100)
    /\ lastOp.fundamental_score = Some(95)

\* the adjustments of the indicators that are present in row r, nothing for the others
PresentAdjustments(r, dpRows, close) ==
    (IF IsNull(r.rsi) THEN 0 ELSE RsiAdjustment(Some(parseFloat(Val(r.rsi)))))
    + (IF IsNull(r.ma5) \/ IsNull(r.ma20) THEN 0
       ELSE MaAdjustment(close, Some(parseFloat(Val(r.ma5))), Some(parseFloat(Val(r.ma20)))))
    + (IF IsNull(r.ma60) THEN 0 ELSE Ma60Adjustment(close, Some(parseFloat(Val(r.ma60)))))
    + (IF IsNull(r.macd_histogram) THEN 0 ELSE MacdAdjustment(r.macd_histogram))
    + (IF IsNull(r.kd_k) \/ IsNull(r.kd_d) THEN 0
       ELSE KdAdjustment(Some(parseFloat(Val(r.kd_k))), Some(parseFloat(Val(r.kd_d)))))
    + (IF IsNull(r.ma5) THEN 0
       ELSE VolumeAdjustment(dpRows, close, Some(parseFloat(Val(r.ma5)))))
    + (IF IsNull(r.adx) \/ IsNull(r.plus_di) \/ IsNull(r.minus_di) THEN 0
       ELSE AdxAdjustment(Some(parseFloat(Val(r.adx))), Some(parseFloat(Val(r.plus_di))),
                          Some(parseFloat(Val(r.minus_di)))))
    + (IF IsNull(r.bollinger_upper) \/ IsNull(r.bollinger_lower) THEN 0
       ELSE BollingerAdjustment(close, Some(parseFloat(Val(r.bollinger_upper))),
                                Some(parseFloat(Val(r.bollinger_lower)))))

AllAbsent(r) ==
    \A c \in {"rsi", "ma5", "ma20", "ma60", "macd_histogram", "kd_k", "kd_d", "adx",
              "plus_di", "minus_di", "bollinger_upper", "bollinger_lower"} : IsNull(r[c])

\* C9: whichever indicator fields of the latest record are absent, scoreStock returns
\* clamp(50 + the adjustments of the present indicators): an absent indicator adds
\* exactly 0, and with every indicator absent the score is 50
C9_AbsentIndicatorAddsZero ==
    (Scored /\ ~IsNull(lastOp.technical_score)) =>
        \A r \in IndicatorRows(lastOp.stock_id) :
            /\ Val(lastOp.technical_score) =
                   Max2(0, Min2(100, 50 + PresentAdjustments(
                       r, SelectDescLimit(daily_prices[lastOp.stock_id], 21),
                       Some(parseFloat(100)))))
            /\ AllAbsent(r) => lastOp.technical_score = Some(50)

C9_Witness ==
    /\ Scored
    /\ \E r \in IndicatorRows(lastOp.stock_id) :
           /\ IsNull(r.rsi) /\ IsNull(r.ma5) /\ IsNull(r.kd_d)
           /\ ~IsNull(r.macd_histogram) /\ ~IsNull(r.adx)
    /\ lastOp.technical_score = Some(50 + 8 + 5)

\* C10: the total score is the mean of the two scores rounded to an integer when both
\* exist, the existing one when only one exists, and null only when neither exists
C10_TotalIsMeanOrSingleScore ==
    Scored =>
        /\ (~IsNull(lastOp.technical_score) /\ ~IsNull(lastOp.fundamental_score))
           => /\ ~IsNull(lastOp.total_score)
              /\ 2 * Val(lastOp.total_score)
                 - (Val(lastOp.technical_score) + Val(lastOp.fundamental_score))
                 \in {-1, 0, 1}
        /\ (~IsNull(lastOp.technical_score) /\ IsNull(lastOp.fundamental_score))
           => lastOp.total_score = lastOp.technical_score
        /\ (IsNull(lastOp.technical_score) /\ ~IsNull(lastOp.fundamental_score))
           => lastOp.total_score = lastOp.fundamental_score
        /\ IsNull(lastOp.total_score)
           => (IsNull(lastOp.technical_score) /\ IsNull(lastOp.fundamental_score))

C10_Witness ==
    /\ Scored
    /\ lastOp.technical_score = Some(100)
    /\ lastOp.fundamental_score = Some(85)
    /\ lastOp.total_score = Some(93)

----------------------------------------------------------------------------
(* Properties of the strategy screener *)

\* a successful answer of the preset
Screened(strategy) ==
    /\ lastOp.op = "screenByStrategy"
    /\ lastOp.strategy = strategy
    /\ lastOp.response.status = 200
    /\ "data" \in DOMAIN lastOp.response.body

ScreenedData == lastOp.response.body.data

ScreenedIds == {ScreenedData[i].stock_id : i \in 1..Len(ScreenedData)}

\* the volumes of the 20 trading days before the latest one
Preceding20(rows) == [k \in 1..20 |-> Val(rows[Len(rows) - 21 + k].volume)]

\* the latest volume is strictly greater than twice the mean of the 20 preceding ones
BreaksOut(rows) ==
    /\ Len(rows) >= 21
    /\ \A i \in (Len(rows) - 20)..Len(rows) : ~IsNull(rows[i].volume)
    /\ Val(rows[Len(rows)].volume) * 20 > 2 * Sum(Preceding20(rows))

\* C11: in a market where at most 50 instruments break out, the volume_breakout preset
\* returns an instrument if and only if the volume of
\* its latest stored trading day is strictly greater than twice the average volume of
\* the 20 trading days immediately preceding it, and orders the matches by that latest
\* volume, largest first
C11_VolumeBreakoutIsTrailing20 ==
    (/\ Screened("volume_breakout")
     /\ Cardinality({s \in StocksTable : BreaksOut(daily_prices[s])}) <= 50) =>
        /\ \A s \in StocksTable :
               Len(daily_prices[s]) >= 21 => (s \in ScreenedIds <=> BreaksOut(daily_prices[s]))
        /\ \A i, j \in 1..Len(ScreenedData) :
               i < j => Val(ScreenedData[i].volume) >= Val(ScreenedData[j].volume)

\* the direction of the preset's ORDER BY
Descending(strategy) == strategy \in {"golden_cross", "macd_golden_cross", "volume_breakout"}

\* the rows that satisfy the preset's predicate, for a threshold of the RSI preset
Matching(strategy, threshold) ==
    IF strategy = "golden_cross" THEN GoldenCrossRows
    ELSE IF strategy = "rsi_oversold" THEN RsiOversoldRows(threshold)
    ELSE IF strategy = "macd_golden_cross" THEN MacdGoldenCrossRows
    ELSE IF strategy = "volume_breakout" THEN VolumeBreakoutRows
    ELSE BollingerSqueezeRows

\* the most recent indicator record of an instrument
LatestIndicator(stockId) ==
    CHOOSE r \in technical_indicators :
        /\ r.stock_id = stockId
        /\ \A q \in technical_indicators : q.stock_id = stockId => q.trade_date <= r.trade_date

\* the entry carries the values of the instrument's latest snapshot
FromLatest(strategy, e) ==
    IF strategy = "golden_cross"
    THEN /\ e.trade_date = LatestIndicator(e.stock_id).trade_date
         /\ e.ma5 = LatestIndicator(e.stock_id).ma5
         /\ e.ma20 = LatestIndicator(e.stock_id).ma20
    ELSE IF strategy = "rsi_oversold"
    THEN /\ e.trade_date = LatestIndicator(e.stock_id).trade_date
         /\ e.rsi = LatestIndicator(e.stock_id).rsi
    ELSE IF strategy = "macd_golden_cross"
    THEN /\ e.trade_date = LatestIndicator(e.stock_id).trade_date
         /\ e.macd_histogram = LatestIndicator(e.stock_id).macd_histogram
    ELSE IF strategy = "volume_breakout"
    THEN /\ e.trade_date = LastDate(daily_prices[e.stock_id])
         /\ e.volume = daily_prices[e.stock_id][Len(daily_prices[e.stock_id])].volume
    ELSE /\ e.bollinger_upper = LatestIndicator(e.stock_id).bollinger_upper
         /\ e.bollinger_lower = LatestIndicator(e.stock_id).bollinger_lower

\* the answer is a ranking of the given matches, cut after 50
Ranked(strategy, matches) ==
    /\ Len(ScreenedData) <= 50
    /\ \A i, j \in 1..Len(ScreenedData) :
           i < j => /\ ScreenedData[i].stock_id # ScreenedData[j].stock_id
                    /\ ~SortsBefore(ScreenedData[j].key, ScreenedData[i].key,
                                    Descending(strategy))
    /\ \A i \in 1..Len(ScreenedData) :
           /\ ScreenedData[i] \in matches
           /\ FromLatest(strategy, ScreenedData[i])
    /\ \A r \in matches :
           r.stock_id \notin ScreenedIds =>
               \A i \in 1..Len(ScreenedData) :
                   ~SortsBefore(r.key, ScreenedData[i].key, Descending(strategy))

\* C12: for each of the five presets, the answer holds only values of each instrument's
\* latest snapshot, has at most 50 entries and at most one per instrument, is ordered by
\* the preset's sort key, and no matching instrument left out ranks better on that key
\* than an instrument returned
C12_RankedLatestSnapshotsCappedAt50 ==
    \A strategy \in Presets :
        Screened(strategy) =>
            \E threshold \in {RsiThreshold(t) : t \in RequestedThresholds} :
                Ranked(strategy, Matching(strategy, threshold))

\* more than 50 instruments match the preset, and one that matched the day before
\* but not on its latest day is left out with them
C12_Witness ==
    /\ Screened("macd_golden_cross")
    /\ Cardinality(MacdGoldenCrossRows) > 50
    /\ Len(ScreenedData) = 50
    /\ Laggard \in StocksTable \ ScreenedIds

----------------------------------------------------------------------------
(* Properties of the crawlers *)

\* the requests admitted during the hour that ends now
AdmittedLastHour ==
    {i \in 1..Len(requestTimestamps) : requestTimestamps[i] > clock - RATE_WINDOW_MS}

\* C13: the FinMind limiter never admits more than 550 requests within a sliding
\* one-hour window, whatever the interleaving of the calls in flight, and a call over
\* the limit is delayed, never rejected
C13_AtMost550RequestsPerHour ==
    /\ Cardinality(AdmittedLastHour) <= RATE_LIMIT
    /\ \A d \in Datasets : fetches[d].pc \in {"idle", "waiting", "requesting"}

\* the tables the crawlers write
CrawledTables ==
    <<daily_prices, margin_trading, institutional_trading, monthly_revenue,
      financial_statements, financial_ratios>>

\* C14: every crawler save is all-or-nothing: when a write of a save call fails, no
\* record written by that call remains stored, whichever crawler made the call
C14_FailedSaveLeavesNothing ==
    [][(lastOp'.op = "crawl" /\ lastOp'.threw) => UNCHANGED CrawledTables]_vars

\* no two rows of a table share its unique key
OneRowPerKey ==
    /\ \A s \in StocksTable : \A i, j \in 1..Len(daily_prices[s]) :
           i # j => daily_prices[s][i].trade_date # daily_prices[s][j].trade_date
    /\ \A i, j \in 1..Len(margin_trading) :
           i # j => ~SameKey(margin_trading[i], margin_trading[j])
    /\ \A i, j \in 1..Len(institutional_trading) :
           i # j => ~SameKey(institutional_trading[i], institutional_trading[j])
    /\ \A s \in DOMAIN monthly_revenue : \A i, j \in 1..Len(monthly_revenue[s]) :
           i # j => ~SamePeriod(monthly_revenue[s][i], monthly_revenue[s][j].year,
                                monthly_revenue[s][j].month)
    /\ \A s \in DOMAIN financial_statements : \A i, j \in 1..Len(financial_statements[s]) :
           i # j => ~SameQuarter(financial_statements[s][i], financial_statements[s][j])
    /\ \A i, j \in 1..Len(financial_ratios) :
           i # j => ~(/\ financial_ratios[i].stock_id = financial_ratios[j].stock_id
                      /\ SameQuarter(financial_ratios[i], financial_ratios[j]))

\* C15: a crawler save that repeats the previous one with the same fetched records
\* leaves every table as the first one left it: one row per unique key, and the same
\* field values, derived growth rates and ratios included
C15_RepeatedSaveChangesNothing ==
    [][(lastOp'.op = "crawl" /\ lastOp'.again /\ ~lastOp'.threw)
           => (UNCHANGED CrawledTables /\ OneRowPerKey')]_vars

\* the monthly-revenue save was run twice with the same records, and the growth rates
\* it derives are stored: +20.00% on the month, +50.00% on the year
C15_Witness ==
    /\ lastOp.op = "crawl"
    /\ lastOp.crawler = "monthly_revenue"
    /\ lastOp.again
    /\ ~lastOp.threw
    /\ monthly_revenue["2330"][1].revenue_mom = Some(2000)
    /\ monthly_revenue["2330"][1].revenue_yoy = Some(5000)
    /\ Len(monthly_revenue["2330"]) = 4

----------------------------------------------------------------------------
(* Properties of the signal detectors *)

\* the events of a list, as a collection without order
Events(signals) == {signals[i] : i \in 1..Len(signals)}

\* the detectors that find an event on the stored records of the stock
Firing(stockId) == {i \in 1..Len(Detectors) : ~IsNull(Detect(Detectors[i], stockId))}

\* the five detectors in every order
DetectorOrders == {[i \in 1..Len(Detectors) |-> Detectors[p[i]]] :
                      p \in Permutations(1..Len(Detectors))}

\* C16: detectAllSignals returns exactly the events that the five detectors produce on
\* the same records, zero or one per detector and so at most five, each event being what
\* its detector returns by itself, and the detectors run in any order yield the same
\* collection
C16_AllSignalsAreTheDetectorsEvents ==
    lastOp.op = "detectAllSignals" =>
        /\ Events(lastOp.signals) =
               {Val(Detect(Detectors[i], lastOp.stock_id)) : i \in Firing(lastOp.stock_id)}
        /\ Len(lastOp.signals) = Cardinality(Firing(lastOp.stock_id))
        /\ Len(lastOp.signals) <= 5
        /\ \A order \in DetectorOrders :
               /\ Events(RunDetectors(order, lastOp.stock_id)) = Events(lastOp.signals)
               /\ Len(RunDetectors(order, lastOp.stock_id)) = Len(lastOp.signals)

\* all five detectors fired at once
C16_Witness ==
    /\ lastOp.op = "detectAllSignals"
    /\ Len(lastOp.signals) = 5
    /\ Cardinality({lastOp.signals[i].signal : i \in 1..5}) = 5

\* every stored record
StoredRecords ==
    <<daily_prices, technical_indicators, monthly_revenue, financial_statements, dividends,
      margin_trading, institutional_trading, financial_ratios>>

\* C17: signal detection reads stored state and never writes it: a run of a detector or
\* of detectAllSignals leaves every stored record unchanged, and a run that repeats the
\* previous one on the unchanged records returns the same result, with no additional event
C17_DetectionReadsOnly ==
    [][(lastOp'.op \in {"detect", "detectAllSignals"})
           => /\ UNCHANGED StoredRecords
              /\ lastOp'.again =>
                     IF lastOp'.op = "detect" THEN lastOp'.result = lastOp.result
                     ELSE lastOp'.signals = lastOp.signals]_vars

\* detectMACDCrossover was run again after it had reported a golden cross
C17_Witness ==
    /\ lastOp.op = "detect"
    /\ lastOp.detector = "detectMACDCrossover"
    /\ lastOp.again
    /\ ~IsNull(lastOp.result)
    /\ Val(lastOp.result).signal = "macd_golden_cross"

\* the last operation was a run of the detector on the stock whose result is lastOp.result
Detected(detector) == lastOp.op = "detect" /\ lastOp.detector = detector

\* the record before the latest one
PreviousRow(rows) == MaxDateRow(rows \ {MaxDateRow(rows)})

\* the technical_indicators records of the stock that carry an RSI
RsiRecords(stockId) == {r \in IndicatorRows(stockId) : ~IsNull(r.rsi)}

\* the RSI outcome of the priority list for the latest value r and the previous value p,
\* both in hundredths
RsiOutcome(r, p) ==
    IF p < 30 * 100 /\ r >= 30 * 100 THEN "rsi_bounce"
    ELSE IF r < 30 * 100 THEN "rsi_oversold"
    ELSE IF r > 70 * 100 THEN "rsi_overbought"
    ELSE "none"

\* C18: for the latest RSI r and the previous RSI p of an instrument, detectRSIOversold
\* returns exactly one outcome in this priority: bounce if p < 30 and r >= 30, otherwise
\* oversold if r < 30, otherwise overbought if r > 70, otherwise no event
C18_RsiOutcomeByPriority ==
    (Detected("detectRSIOversold") /\ Cardinality(RsiRecords(lastOp.stock_id)) >= 2) =>
        LET latest == MaxDateRow(RsiRecords(lastOp.stock_id))
            outcome == RsiOutcome(Val(latest.rsi),
                                  Val(PreviousRow(RsiRecords(lastOp.stock_id)).rsi))
        IN  lastOp.result = IF outcome = "none" THEN Null
                            ELSE Some([signal |-> outcome, date |-> latest.trade_date])

\* a bounce was reported although the latest RSI is also above 70
C18_Witness ==
    /\ Detected("detectRSIOversold")
    /\ ~IsNull(lastOp.result)
    /\ Val(lastOp.result).signal = "rsi_bounce"
    /\ Cardinality(RsiRecords(lastOp.stock_id)) >= 2
    /\ Val(MaxDateRow(RsiRecords(lastOp.stock_id)).rsi) > 70 * 100

\* the technical_indicators records of the stock that carry both MA5 and MA20
MaRecords(stockId) == {r \in IndicatorRows(stockId) : ~IsNull(r.ma5) /\ ~IsNull(r.ma20)}

SignalOf(result) == IF IsNull(result) THEN "none" ELSE Val(result).signal

\* C19: detectMACrossover returns golden_cross exactly when MA5 <= MA20 at the previous
\* record and MA5 > MA20 at the latest one, death_cross exactly when MA5 >= MA20 at the
\* previous record and MA5 < MA20 at the latest one, and no event otherwise, in particular
\* when fewer than two records with both averages exist
C19_CrossoverExactlyOnCrossing ==
    Detected("detectMACrossover") =>
        IF Cardinality(MaRecords(lastOp.stock_id)) < 2 THEN IsNull(lastOp.result)
        ELSE LET latest == MaxDateRow(MaRecords(lastOp.stock_id))
                 previous == PreviousRow(MaRecords(lastOp.stock_id))
                 golden == /\ Val(previous.ma5) <= Val(previous.ma20)
                           /\ Val(latest.ma5) > Val(latest.ma20)
                 death == /\ Val(previous.ma5) >= Val(previous.ma20)
                          /\ Val(latest.ma5) < Val(latest.ma20)
             IN  /\ SignalOf(lastOp.result) = "golden_cross" <=> golden
                 /\ SignalOf(lastOp.result) = "death_cross" <=> death
                 /\ SignalOf(lastOp.result) \in {"golden_cross", "death_cross", "none"}
                 /\ ~IsNull(lastOp.result) => Val(lastOp.result).date = latest.trade_date

\* a golden cross was reported from equal averages the day before
C19_Witness ==
    /\ Detected("detectMACrossover")
    /\ SignalOf(lastOp.result) = "golden_cross"
    /\ Cardinality(MaRecords(lastOp.stock_id)) >= 2
    /\ PreviousRow(MaRecords(lastOp.stock_id)).ma5 = PreviousRow(MaRecords(lastOp.stock_id)).ma20

\* the volumes of the 20 days before the latest one, when the stock has them all
PrecedingVolumes(prices) ==
    {prices[i].volume : i \in (Len(prices) - 20)..(Len(prices) - 1)}

\* the latest volume is strictly greater than twice the mean of the 20 preceding volumes
AboveTwiceTheMean(prices) ==
    /\ ~IsNull(prices[Len(prices)].volume)
    /\ Null \notin PrecedingVolumes(prices)
    /\ Val(prices[Len(prices)].volume) * 20
           > 2 * Sum([i \in 1..20 |-> Val(prices[Len(prices) - i].volume)])

\* C20: detectVolumeBreakout fires if and only if the instrument has at least 21 stored
\* price rows and the latest volume is strictly greater than twice the mean volume of the
\* 20 days immediately preceding it
C20_VolumeBreakoutIffAboveTwiceMean ==
    Detected("detectVolumeBreakout") =>
        (~IsNull(lastOp.result) <=>
            /\ Len(daily_prices[lastOp.stock_id]) >= 21
            /\ AboveTwiceTheMean(daily_prices[lastOp.stock_id]))

\* a breakout was reported for a stock with more than 21 price rows
C20_Witness ==
    /\ Detected("detectVolumeBreakout")
    /\ SignalOf(lastOp.result) = "volume_breakout"
    /\ Len(daily_prices[lastOp.stock_id]) > 21

----------------------------------------------------------------------------
(* Properties of the indicator functions *)

\* the series the last call was applied to
AppliedRows == daily_prices[lastOp.stock_id]

AppliedTo(function) == lastOp.op = function

\* the last period bars of the rows have one price: their highest high is their lowest low
ZeroRange(rows, period) ==
    LET window == (Len(rows) - period + 1)..Len(rows)
    IN  \E i \in window :
            /\ \A j \in window : rows[j].high_price <= rows[i].high_price
            /\ \A j \in window : rows[j].low_price >= rows[i].high_price

\* every bar of the rows has the same single price
FlatRows(rows) ==
    \A i \in 1..Len(rows) :
        /\ rows[i].high_price = rows[1].close_price
        /\ rows[i].low_price = rows[1].close_price
        /\ rows[i].close_price = rows[1].close_price

\* C21: for every lookback window whose highest high equals its lowest low the stochastic
\* RSV is taken as 50 and Williams %R is returned as -50, a number and never an absent or
\* undefined value; on a fully flat series of at least 9 rows K and D are 50 after every bar
C21_ZeroRangeWindowFallsBack ==
    /\ (AppliedTo("calculateKD") /\ Len(AppliedRows) >= 9) =>
           /\ ~IsNull(lastOp.result.k) /\ ~IsNull(lastOp.result.d)
           /\ ZeroRange(AppliedRows, 9) =>
                  RSV(Highs(AppliedRows), Lows(AppliedRows), Closes(AppliedRows),
                      Len(AppliedRows), 9) = 50 * FP
           /\ FlatRows(AppliedRows) =>
                  lastOp.result = [k |-> Some(50 * 100), d |-> Some(50 * 100)]
    /\ (AppliedTo("calculateWilliamsR") /\ Len(AppliedRows) >= 14) =>
           /\ ~IsNull(lastOp.result)
           /\ ZeroRange(AppliedRows, 14) => lastOp.result = Some(-50 * 100)

\* calculateKD met a zero-range window at the end of a series that is not flat
C21_Witness ==
    /\ AppliedTo("calculateKD")
    /\ Len(AppliedRows) >= 9
    /\ ZeroRange(AppliedRows, 9)
    /\ ~FlatRows(AppliedRows)
    /\ lastOp.result.k # Some(50 * 100)

\* C22: for every input series of highs, lows and closes of length at least 9 the K and D
\* values produced by calculateKD are within [0, 100] after every step of the recurrence
\* (the series of every length up to MaxBars are the steps)
C22_KDWithin0And100 ==
    (AppliedTo("calculateKD") /\ Len(AppliedRows) >= 9) =>
        /\ Val(lastOp.result.k) >= 0 /\ Val(lastOp.result.k) <= 100 * 100
        /\ Val(lastOp.result.d) >= 0 /\ Val(lastOp.result.d) <= 100 * 100

\* every close of the rows lies between the low and the high of its bar
ClosesWithinRange(rows) ==
    \A i \in 1..Len(rows) :
        rows[i].low_price <= rows[i].close_price /\ rows[i].close_price <= rows[i].high_price

\* q is the quotient num / den (den > 0) to the nearest unit of the number representation
Nearest(q, num, den) == 2 * Abs(q * den - num) <= den

\* C23: for every period p and every series of length n >= p, calculateEMASeries returns
\* a sequence of length n whose elements before the p-th are absent, whose p-th element is
\* the arithmetic mean of the first p elements and whose every later element i is
\* series[i] * k + previous * (1 - k) with k = 2 / (p + 1)
C23_ExponentialSeriesSeededByMean ==
    (AppliedTo("calculateEMASeries") /\ Len(AppliedRows) >= lastOp.period) =>
        LET series == Closes(AppliedRows)
            period == lastOp.period
            ema == lastOp.result
        IN  /\ Len(ema) = Len(series)
            /\ \A i \in 1..(period - 1) : IsNull(ema[i])
            /\ \A i \in period..Len(series) : ~IsNull(ema[i])
            /\ Nearest(Val(ema[period]), Sum(SubSeq(series, 1, period)), period)
            /\ \A i \in (period + 1)..Len(series) :
                   Nearest(Val(ema[i]), 2 * series[i] + (period - 1) * Val(ema[i - 1]),
                           period + 1)

\* a 12-period series with later elements whose seed is not the first value
C23_Witness ==
    /\ AppliedTo("calculateEMASeries")
    /\ lastOp.period = 12
    /\ Len(AppliedRows) > 12
    /\ lastOp.result[12] # Some(Closes(AppliedRows)[1])

\* no close of the rows is below the close before it
NeverDecreasing(rows) ==
    \A i \in 2..Len(rows) : rows[i].close_price >= rows[i - 1].close_price

\* C24: calculateRSI returns absent for fewer than 15 closes, 100 for every constant or
\* never-decreasing series of at least 15 closes (the smoothed average loss is then exactly
\* 0), and a value within [0, 100] for every other series of at least 15 closes
C24_RsiIs100WithoutLossElseWithinRange ==
    AppliedTo("calculateRSI") =>
        /\ IsNull(lastOp.result) <=> Len(AppliedRows) < 15
        /\ (Len(AppliedRows) >= 15 /\ NeverDecreasing(AppliedRows)) =>
               lastOp.result = Some(100 * 100)
        /\ Len(AppliedRows) >= 15 =>
               Val(lastOp.result) >= 0 /\ Val(lastOp.result) <= 100 * 100

\* the RSI of a constant series of at least 15 closes
C24_Witness ==
    /\ AppliedTo("calculateRSI")
    /\ Len(AppliedRows) >= 15
    /\ FlatRows(AppliedRows)
    /\ lastOp.result = Some(100 * 100)

\* the signed volume of bar i >= 2
SignedVolume(rows, i) ==
    IF rows[i].close_price > rows[i - 1].close_price THEN parseVolume(rows[i].volume)
    ELSE IF rows[i].close_price < rows[i - 1].close_price THEN -parseVolume(rows[i].volume)
    ELSE 0

\* the running sum of the signed volumes of bars 2..n, starting at 0
RECURSIVE RunningSum(_, _)
RunningSum(rows, n) == IF n < 2 THEN 0 ELSE RunningSum(rows, n - 1) + SignedVolume(rows, n)

\* C25: for every series of closes and volumes of length at least 2, calculateOBV is the
\* running sum, starting at 0, over the bars after the first of +volume on a higher close,
\* -volume on a lower close and 0 on an equal close; a constant-close series gives 0
C25_ObvIsRunningSignedVolume ==
    (AppliedTo("calculateOBV") /\ Len(AppliedRows) >= 2) =>
        /\ lastOp.result = Some(RunningSum(AppliedRows, Len(AppliedRows)))
        /\ FlatRows(AppliedRows) => lastOp.result = Some(0)

\* the OBV of a series with a higher, a lower and an equal close
C25_Witness ==
    /\ AppliedTo("calculateOBV")
    /\ \E i, j, k \in 2..Len(AppliedRows) :
           /\ SignedVolume(AppliedRows, i) > 0
           /\ SignedVolume(AppliedRows, j) < 0
           /\ AppliedRows[k].close_price = AppliedRows[k - 1].close_price
    /\ ~IsNull(lastOp.result)
    /\ Val(lastOp.result) # 0

\* the true range and both directional movements are 0 on every bar after the first
NoMovement(rows) ==
    \A i \in 2..Len(rows) :
        /\ TrueRange(Highs(rows), Lows(rows), Closes(rows), i) = 0
        /\ PlusDM(Highs(rows), Lows(rows), i) = 0
        /\ MinusDM(Highs(rows), Lows(rows), i) = 0

\* C26: for every constant-price series long enough for DMI (29 bars: 14 DX values after
\* the 14 bars of the seed) the true range and both directional movements are 0 on every
\* bar and calculateDMI reports ADX, +DI and -DI as indeterminate (absent), not as numbers
C26_FlatSeriesHasNoTrendValues ==
    (AppliedTo("calculateDMI") /\ FlatRows(AppliedRows) /\ Len(AppliedRows) >= 29) =>
        /\ NoMovement(AppliedRows)
        /\ IsNull(lastOp.result.adx)
        /\ IsNull(lastOp.result.plusDI)
        /\ IsNull(lastOp.result.minusDI)

\* the MACD points of the closes: EMA12 - EMA26 from the 26th close on
MacdPoints(closes) ==
    [j \in 1..(Len(closes) - 25) |->
        Val(calculateEMASeries(closes, 12)[j + 25]) - Val(calculateEMASeries(closes, 26)[j + 25])]

\* element i >= period of the exponential series of the points seeded by the mean of the
\* first period points
RECURSIVE SeededByMean(_, _, _)
SeededByMean(points, period, i) ==
    IF i <= period THEN Round(Sum(SubSeq(points, 1, period)), period)
    ELSE Round(2 * points[i] + (period - 1) * SeededByMean(points, period, i - 1), period + 1)

\* C27: the MACD line, signal and histogram returned by calculateMACD are all absent for
\* fewer than 35 closes and all present for 35 or more, never a partial triple; when
\* present the signal is the 9-period exponential series of the MACD points seeded by the
\* mean of the first 9 points, and histogram = MACD line - signal
C27_MacdTripleAllOrNothing ==
    AppliedTo("calculateMACD") =>
        IF Len(AppliedRows) < 35 THEN lastOp.result = NoMACD
        ELSE LET points == MacdPoints(Closes(AppliedRows))
             IN  /\ ~IsNull(lastOp.result.macd)
                 /\ ~IsNull(lastOp.result.signal)
                 /\ ~IsNull(lastOp.result.histogram)
                 /\ Val(lastOp.result.macd) = points[Len(points)]
                 /\ Val(lastOp.result.signal) = SeededByMean(points, 9, Len(points))
                 /\ Val(lastOp.result.histogram)
                        = Val(lastOp.result.macd) - Val(lastOp.result.signal)

\* the triple of a series of more than 35 closes whose signal differs from its MACD line
C27_Witness ==
    /\ AppliedTo("calculateMACD")
    /\ Len(AppliedRows) > 35
    /\ ~IsNull(lastOp.result.histogram)
    /\ Val(lastOp.result.histogram) # 0

\* the true ranges and directional movements of the bars after the first
TrSeries(rows) ==
    [j \in 1..(Len(rows) - 1) |-> TrueRange(Highs(rows), Lows(rows), Closes(rows), j + 1)]

PlusDMSeries(rows) == [j \in 1..(Len(rows) - 1) |-> PlusDM(Highs(rows), Lows(rows), j + 1)]

MinusDMSeries(rows) == [j \in 1..(Len(rows) - 1) |-> MinusDM(Highs(rows), Lows(rows), j + 1)]

\* the Wilder average of a series after its last value: seed = mean of the first period
\* values, then A <- (A * (period - 1) + new) / period
WilderAverage(series, period) ==
    WilderLoop(series, period, period + 1, Round(Sum(SubSeq(series, 1, period)), period))
\* the smoothing variables of calculateDMI after the last bar of the rows
SmoothedSums(rows) ==
    DMISmoothing(TrSeries(rows), PlusDMSeries(rows), MinusDMSeries(rows), 14)

\* both recurrences round to the unit of the number representation at every bar; an error
\* of half a unit per bar, shrunk by 13/14 at the next, stays below period / 2 units, on
\* the sum and, fourteen-fold, on 14 times the average
Slack(period) == period * (period \div 2 + 1)

\* sum = period * average, up to the rounding of the representation
SumIsAverageTimes(sum, average, period) == Abs(sum - period * average) <= Slack(period)

\* smoothDM / smoothTR * 100 is the ratio of the averages * 100: two quotients whose
\* numerators and denominators differ by at most Slack (in 14ths) differ by at most
\* 2 * Slack / smoothTR
SameRatio(di, averageDM, averageTR, smoothTR, period) ==
    Abs(di - Ratio(averageDM, averageTR, 100)) <= (2 * Slack(period) * 100 * FP) \div smoothTR + 2

\* C28: the smoothing inside calculateDMI (seed = sum of the first 14 values, then
\* S <- S - S/14 + new) is at every bar 14 times the Wilder average (seed = mean of the
\* first 14 values, A <- (A*13 + new)/14), so +DI and -DI are the ratios of the Wilder
\* averages, and the smoothed true range divided by 14 is the ATR of calculateATR on the
\* same bars
C28_DmiSmoothingIsWilderTimes14 ==
    (AppliedTo("calculateDMI") /\ Len(AppliedRows) >= 15) =>
        LET sums == SmoothedSums(AppliedRows)
            averageTR == WilderAverage(TrSeries(AppliedRows), 14)
            averagePlusDM == WilderAverage(PlusDMSeries(AppliedRows), 14)
            averageMinusDM == WilderAverage(MinusDMSeries(AppliedRows), 14)
            atr == calculateATR(Highs(AppliedRows), Lows(AppliedRows), Closes(AppliedRows), 14)
        IN  /\ SumIsAverageTimes(sums.smoothTR, averageTR, 14)
            /\ SumIsAverageTimes(sums.smoothPlusDM, averagePlusDM, 14)
            /\ SumIsAverageTimes(sums.smoothMinusDM, averageMinusDM, 14)
            /\ SumIsAverageTimes(sums.smoothTR, Val(atr), 14)
            /\ (Len(sums.dxSeries) > 0 /\ sums.smoothTR > 0 /\ averageTR > 0) =>
                   /\ SameRatio(sums.dxSeries[Len(sums.dxSeries)].pdi, averagePlusDM,
                                averageTR, sums.smoothTR, 14)
                   /\ SameRatio(sums.dxSeries[Len(sums.dxSeries)].mdi, averageMinusDM,
                                averageTR, sums.smoothTR, 14)
            /\ ~IsNull(lastOp.result.plusDI) =>
                   /\ Val(lastOp.result.plusDI) = ToFixed2(sums.dxSeries[Len(sums.dxSeries)].pdi)
                   /\ Val(lastOp.result.minusDI) = ToFixed2(sums.dxSeries[Len(sums.dxSeries)].mdi)

\* calculateDMI returned both directional indicators, neither 0, for a series that moves
C28_Witness ==
    /\ AppliedTo("calculateDMI")
    /\ Len(AppliedRows) > 29
    /\ ~IsNull(lastOp.result.plusDI)
    /\ Val(lastOp.result.plusDI) > 0
    /\ Val(lastOp.result.minusDI) > 0
    /\ SmoothedSums(AppliedRows).smoothTR > 10 * FP

----------------------------------------------------------------------------
(* Properties of the crawlers' stock-by-stock loop *)

FallbackRunning == fallback.pc \in {"fetch", "wait"}

FallbackOver == fallback.pc \in {"done", "stopped"}

\* the step from a settled fetch: a success resets the counter and advances, a failure
\* without 402 advances and keeps the counter, a 402 counts and keeps the stock
FallbackStepRule ==
    (fallback.pc = "fetch") =>
        \/ fallback'.i = fallback.i + 1 /\ fallback'.consecutiveFails = 0
        \/ /\ fallback'.i = fallback.i + 1
           /\ fallback'.consecutiveFails = fallback.consecutiveFails
        \/ /\ fallback'.i = fallback.i
           /\ fallback'.consecutiveFails = fallback.consecutiveFails + 1
           /\ fallback'.pc = IF fallback'.consecutiveFails > 5 THEN "stopped" ELSE "wait"

\* C29: the stock-by-stock loop of fetchFinancialStatements and fetchMonthlyRevenue always
\* terminates, for every sequence of API outcomes: a 402 retries the same stock, a success
\* resets the counter and advances, another failure advances, the loop stops at the sixth
\* 402 without a success in between, and no stock is fetched more than 6 times
C29_FallbackLoopTerminates ==
    /\ [][FallbackStepRule]_vars
    /\ [](fallback.consecutiveFails <= 6 /\ fallback.attempts <= 6)
    /\ [](fallback.pc = "stopped" <=> fallback.consecutiveFails > 5)
    /\ FallbackRunning ~> FallbackOver

\* the loop stopped on the sixth 402 in a row at a stock after the first
C29_Witness ==
    /\ fallback.pc = "stopped"
    /\ fallback.i > 0
    /\ fallback.attempts > 1

----------------------------------------------------------------------------
(* Properties of the connection pool *)

\* C30: every pool connection acquired by an engine, screener or crawler operation is
\* released on every path, also when a query fails or the operation returns early: after
\* any sequence of completed operations no connection is held
C30_NoConnectionHeldAfterOperations == connections = 0

====
